---- MODULE Spec2Model ----
(***************************************************************************)
(* Perkle benefit-state engine: period calendar, usage detector, manual     *)
(* marking, catalog reload and refresh-session rotation, modelled from the  *)
(* backend sources (backend/app/...).                                       *)
(***************************************************************************)
EXTENDS Integers, Sequences, FiniteSets, TLC

\* Python None / SQL NULL, one per type of value: a string column, a date, a
\* timestamp.
NULL == "NULL"
NoDate == [year |-> 0, month |-> 0, day |-> 0]
NoTime == 0

\* What a date expression that raises ValueError yields.
ValueError == [year |-> -1, month |-> 0, day |-> 0]

\* What get_period_boundaries yields when it raises ValueError.
PeriodError == <<ValueError, ValueError>>

(***************************************************************************)
(* Civil dates (datetime.date), relativedelta and timedelta(days=1).        *)
(***************************************************************************)
IsLeap(y) == (y % 4 = 0 /\ y % 100 # 0) \/ (y % 400 = 0)

DaysInMonth(y, m) ==
    IF m = 2 THEN (IF IsLeap(y) THEN 29 ELSE 28)
    ELSE IF m \in {4, 6, 9, 11} THEN 30 ELSE 31

\* date(y, m, d): raises ValueError when the day does not exist.
date(y, m, d) ==
    IF m \in 1..12 /\ d >= 1 /\ d <= DaysInMonth(y, m)
    THEN [year |-> y, month |-> m, day |-> d]
    ELSE ValueError

DateLT(a, b) ==
    \/ a.year < b.year
    \/ a.year = b.year /\ a.month < b.month
    \/ a.year = b.year /\ a.month = b.month /\ a.day < b.day

DateLE(a, b) == a = b \/ DateLT(a, b)

\* d.isoformat(): the string "YYYY-MM-DD", represented by its digits read as
\* one number (string order and equality of ISO dates are those of the number).
isoformat(d) == d.year * 10000 + d.month * 100 + d.day

\* datetime.strptime(s, "%Y-%m-%d").date() on such a string.
strptime_ymd(s) ==
    IF s \in Nat THEN date(s \div 10000, (s \div 100) % 100, s % 100) ELSE ValueError

\* d + relativedelta(months=n), n >= 0: the day is clamped to the month's end.
AddMonths(d, n) ==
    LET mm == (d.month - 1) + n
        y  == d.year + (mm \div 12)
        m  == (mm % 12) + 1
        dd == IF d.day > DaysInMonth(y, m) THEN DaysInMonth(y, m) ELSE d.day
    IN [year |-> y, month |-> m, day |-> dd]

\* d + relativedelta(years=n), n any integer: Feb 29 is clamped to Feb 28.
AddYears(d, n) ==
    LET y  == d.year + n
        dd == IF d.day > DaysInMonth(y, d.month) THEN DaysInMonth(y, d.month) ELSE d.day
    IN [year |-> y, month |-> d.month, day |-> dd]

\* MinusOneDay with the subtraction left out.
MinusOneDayOmitted(d) == d

\* d - timedelta(days=1)
MinusOneDay(d) ==
    IF d.day > 1 THEN [d EXCEPT !.day = d.day - 1]
    ELSE IF d.month > 1
         THEN [year |-> d.year, month |-> d.month - 1, day |-> DaysInMonth(d.year, d.month - 1)]
         ELSE [year |-> d.year - 1, month |-> 12, day |-> 31]

\* d + timedelta(days=1)
PlusOneDay(d) ==
    IF d.day < DaysInMonth(d.year, d.month) THEN [d EXCEPT !.day = d.day + 1]
    ELSE IF d.month < 12
         THEN [year |-> d.year, month |-> d.month + 1, day |-> 1]
         ELSE [year |-> d.year + 1, month |-> 1, day |-> 1]

\* Default of the reset_years parameter.
DefaultResetYears == 4

\* Half-width in years of the window of a one-time benefit.
OneTimeYears == 4

(***************************************************************************)
(* get_period_boundaries: <<start, end>>, or ValueError when a date()       *)
(* constructor or the unknown-cadence branch raises.                        *)
(***************************************************************************)
get_period_boundaries(cadence, reference_date, card_anniversary, reset_type, reset_years, last_used_date) ==
    CASE cadence = "monthly" ->
            LET start == [reference_date EXCEPT !.day = 1]
            IN <<start, MinusOneDay(AddMonths(start, 1))>>
      [] cadence = "quarterly" ->
            LET quarter     == (reference_date.month - 1) \div 3
                start_month == quarter * 3 + 1
                start       == date(reference_date.year, start_month, 1)
            IN <<start, MinusOneDay(AddMonths(start, 3))>>
      [] cadence = "semi-annual" ->
            IF reference_date.month <= 6
            THEN <<date(reference_date.year, 1, 1), date(reference_date.year, 6, 30)>>
            ELSE <<date(reference_date.year, 7, 1), date(reference_date.year, 12, 31)>>
      [] cadence = "annual" ->
            IF reset_type = "cardmember_year" /\ card_anniversary # NoDate
            THEN LET anniv_this_year ==
                         date(reference_date.year, card_anniversary.month, card_anniversary.day)
                 IN IF anniv_this_year = ValueError THEN PeriodError
                    ELSE IF ~DateLT(reference_date, anniv_this_year)
                         THEN <<anniv_this_year, MinusOneDay(AddYears(anniv_this_year, 1))>>
                         ELSE <<AddYears(anniv_this_year, -1), MinusOneDay(anniv_this_year)>>
            ELSE <<date(reference_date.year, 1, 1), date(reference_date.year, 12, 31)>>
      [] cadence = "rolling" ->
            IF last_used_date # NoDate
            THEN <<last_used_date, MinusOneDay(AddYears(last_used_date, reset_years))>>
            ELSE LET start == date(reference_date.year - reset_years,
                                   reference_date.month, reference_date.day)
                     end   == date(reference_date.year + reset_years,
                                   reference_date.month, reference_date.day)
                 IN IF start = ValueError \/ end = ValueError THEN PeriodError
                    ELSE <<start, end>>
      [] cadence = "one-time" ->
            <<date(reference_date.year - OneTimeYears, 1, 1),
              date(reference_date.year + OneTimeYears, 12, 31)>>
      [] cadence = "per-booking" -> <<reference_date, reference_date>>
      [] OTHER -> PeriodError

(***************************************************************************)
(* Anniversary strings.  A stored card_anniversary is NULL, an "MM-DD"      *)
(* string (length 5) or a "YYYY-MM-DD" string (length 10).                  *)
(***************************************************************************)
NoText == [len |-> 0, text |-> 0]
MMDD(m, d) == [len |-> 5, text |-> m * 100 + d]
YMD(y, m, d) == [len |-> 10, text |-> y * 10000 + m * 100 + d]

\* parse_anniversary_to_date: a date, NoDate (None) or ValueError (raised).
parse_anniversary_to_date(anniversary_str, reference_date) ==
    IF anniversary_str = NoText THEN NoDate
    ELSE IF anniversary_str.len = 10 THEN strptime_ymd(anniversary_str.text)
    ELSE IF anniversary_str.len = 5
         THEN date(reference_date.year, anniversary_str.text \div 100,
                   anniversary_str.text % 100)
    ELSE NoDate

(***************************************************************************)
(* Strings are sequences of one-character strings.                          *)
(***************************************************************************)
UpperAlpha == <<"A", "B", "C", "D", "E", "F", "G", "H", "I", "J", "K", "L", "M",
                "N", "O", "P", "Q", "R", "S", "T", "U", "V", "W", "X", "Y", "Z">>
LowerAlpha == <<"a", "b", "c", "d", "e", "f", "g", "h", "i", "j", "k", "l", "m",
                "n", "o", "p", "q", "r", "s", "t", "u", "v", "w", "x", "y", "z">>

LowerChar(c) ==
    IF \E i \in 1..Len(UpperAlpha) : UpperAlpha[i] = c
    THEN LowerAlpha[CHOOSE i \in 1..Len(UpperAlpha) : UpperAlpha[i] = c]
    ELSE c

\* str.lower()
lower(s) == [i \in 1..Len(s) |-> LowerChar(s[i])]

\* "pat in text"
Contains(text, pat) ==
    \E i \in 0..(Len(text) - Len(pat)) : SubSeq(text, i + 1, i + Len(pat)) = pat

\* _matches_patterns: case-insensitive substring match against any pattern.
_matches_patterns(text, patterns) ==
    \E k \in 1..Len(patterns) : Contains(lower(text), lower(patterns[k]))

\* _parse_transaction_date: a date, or NoDate (None) when strptime raises.
_parse_transaction_date(date_str) ==
    IF strptime_ymd(date_str) = ValueError THEN NoDate ELSE strptime_ymd(date_str)

\* abs()
Abs(x) == IF x < 0 THEN -x ELSE x

\* dict.get(key, default)
Get(d, key, default) == IF key \in DOMAIN d THEN d[key] ELSE default

(***************************************************************************)
(* The universe of the model: one catalog card, its YAML file in two        *)
(* revisions (the benefit values differ), one user with one user card, a    *)
(* pool of CSV rows and a few calendar days.                                *)
(***************************************************************************)
UserIds == {"u1"}
CardConfigIds == {"cc1"}
UserCardIds == {"uc1"}

DiningBenefit(v) ==
    [slug |-> "dining", name |-> "Dining Credit", value |-> v, cadence |-> "monthly",
     reset_type |-> "calendar_year", tracking_mode |-> "auto",
     detection_rules |-> [credit_patterns |-> << <<"D", "i", "n", "e">> >>]]

TravelBenefit ==
    [slug |-> "travel", name |-> "Travel Credit", value |-> 8, cadence |-> "annual",
     reset_type |-> "cardmember_year", tracking_mode |-> "manual"]

LoungeBenefit ==
    [slug |-> "lounge", name |-> "Lounge Access", cadence |-> "annual",
     tracking_mode |-> "info"]

\* The values the dining credit takes in the revisions of the YAML file.
BenefitValues == {5, 10}

\* data.get("benefits", []) of the revisions of the card's YAML file.
YamlFiles == { <<DiningBenefit(v), TravelBenefit, LoungeBenefit>> : v \in BenefitValues }

D(y, m, d) == [year |-> y, month |-> m, day |-> d]

\* The days on which requests are made, in order.
Days == << D(2025, 3, 15), D(2025, 4, 2) >>

\* Rows of the uploaded CSV files.
Row1 == [date |-> 20250310, name |-> <<"D", "I", "N", "E", " ", "X">>, amount |-> -7,
         account |-> <<"T", "C">>]
Row2 == [date |-> 20250312, name |-> <<"d", "i", "n", "e", "r">>, amount |-> -4,
         account |-> <<"T", "C">>]
Row3 == [date |-> 20250402, name |-> <<"D", "i", "n", "e">>, amount |-> -3,
         account |-> <<"t", "c">>]

\* The uploaded CSV files.
CsvFiles == { <<Row1>>, <<Row2, Row1>> }

\* account_patterns of the card's YAML file.
AccountPatterns == << <<"t", "c">> >>

\* card_anniversary values a user card is given.
Anniversaries == { MMDD(7, 15) }

\* The amounts of mark-used requests that give one.
MarkAmounts == { 0, 3 }

\* Detection and marking stop once a period has been applied to this often.
MaxUsageCount == 3
MaxSessions == 4
MaxClock == 9

VARIABLES
    today,            \* date.today()
    card_configs,     \* card_configs table: id -> [benefits]
    user_cards,       \* user_cards table: id -> row
    transactions,     \* transactions table, in insertion order
    benefit_periods,  \* benefit_periods table: <<user_card_id, benefit_slug, period_start>> -> row
    last,             \* the last request served and its response
    inflight,         \* the session of each request being served concurrently
    outcome,          \* how the concurrent request that ended last ended
    runs,             \* which requests have been served concurrently so far
    refresh_sessions, \* refresh_sessions table, in insertion order (id = position)
    clock,            \* datetime.utcnow(), in days
    refreshing,       \* the POST /auth/refresh request each worker is serving
    accepted,         \* per refresh token (by jti): how many refreshes presenting it got 200
    logged_out,       \* per user: the user has logged out and not logged in since
    benefit_settings, \* user_benefit_settings table: <<user_card_id, benefit_slug>> -> row
    response          \* the last response of a card route, a GET route or a computation

vars == <<today, card_configs, user_cards, transactions, benefit_periods, last,
          inflight, outcome, runs, refresh_sessions, clock, refreshing, accepted,
          logged_out, benefit_settings, response>>

\* The variables of the refresh-session protocol.
authVars == <<refresh_sessions, clock, refreshing, accepted, logged_out>>

\* The benefit settings and the responses of the card and status routes.
extVars == <<benefit_settings, response>>

\* The variables of the requests served concurrently.
concVars == <<inflight, outcome, runs>>

(***************************************************************************)
(* A SQLAlchemy session (autoflush off): the rows it has loaded, as loaded  *)
(* (orig) and as modified (loaded), the rows it has added (new), and the    *)
(* locals of the request handler that runs in it.                           *)
(***************************************************************************)
EmptyMap == [k \in {} |-> 0]

\* The benefit_periods key: (user_card_id, benefit_slug, period_start).
PeriodKey(user_card_id, benefit_slug, period_start) ==
    <<user_card_id, benefit_slug, isoformat(period_start)>>

\* datetime.utcnow().isoformat() of a request served on day d.
utcnow(d) == isoformat(d)

NewSession(day) ==
    [kind |-> "none", today |-> day, status |-> "running",
     cards |-> <<>>, work |-> <<>>,
     orig |-> EmptyMap, loaded |-> EmptyMap, new |-> EmptyMap,
     created_periods |-> {}, txn_orig |-> EmptyMap, txn_slug |-> EmptyMap,
     detected_count |-> 0, detected_benefits |-> <<>>, detail |-> ""]

\* db.query(BenefitPeriod).filter(key).first() in session s: the row of the
\* table, or the session's own copy when it has loaded the row before.
QueryPeriod(s, periods, key) ==
    IF key \in DOMAIN s.loaded THEN s.loaded[key] ELSE periods[key]

\* Assigning attributes of a loaded row in session s.
Modify(s, periods, key, row) ==
    [s EXCEPT !.orig   = IF key \in DOMAIN s.orig THEN @ ELSE (key :> periods[key]) @@ @,
              !.loaded = (key :> row) @@ @]

\* The UPDATE of a flush writes the columns the session changed.
UpdatedRow(dbrow, orig, cur) ==
    [c \in DOMAIN dbrow |-> IF cur[c] # orig[c] THEN cur[c] ELSE dbrow[c]]

\* uq_benefit_period: an INSERT of a key the table holds raises IntegrityError;
\* an UPDATE of a row the table no longer holds raises StaleDataError.
FlushFails(s, periods) ==
    \/ \E k \in DOMAIN s.new : k \in DOMAIN periods
    \/ \E k \in DOMAIN s.loaded : k \notin DOMAIN periods

\* db.commit(): the benefit_periods table after the flush of session s.
FlushPeriods(s, periods) ==
    [k \in DOMAIN periods \cup DOMAIN s.new |->
        IF k \in DOMAIN s.new THEN s.new[k]
        ELSE IF k \in DOMAIN s.loaded THEN UpdatedRow(periods[k], s.orig[k], s.loaded[k])
        ELSE periods[k]]

\* FlushTransactions with the UPDATEs of transactions left out of the commit.
FlushTransactionsLost(s, txns) == txns

\* db.commit(): the transactions table after the flush of session s.
FlushTransactions(s, txns) ==
    [i \in 1..Len(txns) |->
        IF i \in DOMAIN s.txn_slug /\ s.txn_slug[i] # s.txn_orig[i]
        THEN [txns[i] EXCEPT !.benefit_slug = s.txn_slug[i]]
        ELSE txns[i]]

\* Accumulate that also stores the catalog value as the limit of the row.
AccumulateRelimited(row, txn_amount, benefit_value, now) ==
    [row EXCEPT !.amount_used = @ + txn_amount,
                !.usage_count = @ + 1,
                !.amount_limit = benefit_value]

(***************************************************************************)
(* The detector: detect_benefits_for_user and _record_benefit_usage.        *)
(***************************************************************************)
\* The accumulation of lines 199-204 and 216-220 on a row.
Accumulate(row, txn_amount, benefit_value, now) ==
    LET amount_used == row.amount_used + txn_amount
        complete    == amount_used >= benefit_value /\ row.completed = 0
    IN [row EXCEPT !.amount_used  = amount_used,
                   !.usage_count  = @ + 1,
                   !.completed    = IF complete THEN 1 ELSE @,
                   !.completed_at = IF complete THEN now ELSE @]

\* The BenefitPeriod of lines 228-238.
DetectedPeriod(item, txn_amount, benefit_value, now) ==
    [period_end     |-> isoformat(item.period_end),
     amount_limit   |-> benefit_value,
     amount_used    |-> txn_amount,
     usage_count    |-> 1,
     completed      |-> IF txn_amount >= benefit_value THEN 1 ELSE 0,
     completed_at   |-> IF txn_amount >= benefit_value THEN now ELSE NoTime,
     manual_checked |-> 0]

\* _record_benefit_usage for one matching transaction (item): the session
\* after the call, and whether the call returned a BenefitPeriod (not None).
_record_benefit_usage(s, periods, txns, item) ==
    LET period_key    == PeriodKey(item.user_card_id, item.benefit.slug, item.period_start)
        txn_amount    == Abs(txns[item.txn].amount)
        benefit_value == Get(item.benefit, "value", 0)
        now           == utcnow(s.today)
    IN IF period_key \in DOMAIN periods
       THEN [session |-> Modify(s, periods, period_key,
                                Accumulate(QueryPeriod(s, periods, period_key),
                                           txn_amount, benefit_value, now)),
             result  |-> FALSE]
       ELSE IF period_key \in s.created_periods
       THEN [session |-> IF period_key \in DOMAIN s.new
                         THEN [s EXCEPT !.new[period_key] =
                                   Accumulate(@, txn_amount, benefit_value, now)]
                         ELSE s,
             result  |-> FALSE]
       ELSE [session |-> [s EXCEPT !.created_periods = @ \cup {period_key},
                                   !.new = (period_key :>
                                       DetectedPeriod(item, txn_amount, benefit_value, now)) @@ @],
             result  |-> TRUE]

\* Lines 106-129: one matching transaction in the loop of the detector.
DetectRecord(s, periods, txns) ==
    LET item == Head(s.work)
        r    == _record_benefit_usage(s, periods, txns, item)
        s1   == [r.session EXCEPT !.work = Tail(@)]
    IN IF r.result
       THEN [s1 EXCEPT !.detected_count    = @ + 1,
                       !.detected_benefits = Append(@, <<item.benefit.slug, item.txn>>),
                       !.txn_slug          = (item.txn :> item.benefit.slug) @@ @]
       ELSE s1

\* Lines 87-95: the current period of a benefit, as the detector computes it.
DetectorPeriod(benefit, day, card_anniversary) ==
    LET reset_type == Get(benefit, "reset_type", NULL)
        effective_anniversary ==
            IF reset_type = "cardmember_year" THEN card_anniversary ELSE NoDate
    IN get_period_boundaries(Get(benefit, "cadence", "monthly"), day,
                             effective_anniversary, reset_type, DefaultResetYears, NoDate)

\* Lines 78-85: the benefits the detector tracks.
AutoTracked(benefit) ==
    /\ Get(benefit, "tracking_mode", NULL) = "auto"
    /\ Len(Get(Get(benefit, "detection_rules", EmptyMap), "credit_patterns", <<>>)) > 0

\* MatchingCredits without the test of line 102 on the transaction date.
RECURSIVE MatchingCreditsAnyDate(_, _, _, _, _, _)
MatchingCreditsAnyDate(txns, credits, k, benefit, period, user_card_id) ==
    IF k > Len(credits) THEN <<>>
    ELSE LET txn == txns[credits[k]]
             hit == /\ _parse_transaction_date(txn.date) # NoDate
                    /\ _matches_patterns(txn.name, benefit.detection_rules.credit_patterns)
         IN (IF hit THEN << [user_card_id |-> user_card_id, benefit |-> benefit,
                             txn |-> credits[k],
                             period_start |-> period[1], period_end |-> period[2]] >>
             ELSE <<>>)
            \o MatchingCreditsAnyDate(txns, credits, k + 1, benefit, period, user_card_id)

\* Lines 98-104: the transactions of credits, from the k-th on, that fall in
\* the period and match the benefit's patterns, in the order of credits.
RECURSIVE MatchingCredits(_, _, _, _, _, _)
MatchingCredits(txns, credits, k, benefit, period, user_card_id) ==
    IF k > Len(credits) THEN <<>>
    ELSE LET txn      == txns[credits[k]]
             txn_date == _parse_transaction_date(txn.date)
             hit      == /\ txn_date # NoDate
                         /\ ~DateLT(txn_date, period[1])
                         /\ ~DateLT(period[2], txn_date)
                         /\ _matches_patterns(txn.name,
                                              benefit.detection_rules.credit_patterns)
         IN (IF hit THEN << [user_card_id |-> user_card_id, benefit |-> benefit,
                             txn |-> credits[k],
                             period_start |-> period[1], period_end |-> period[2]] >>
             ELSE <<>>)
            \o MatchingCredits(txns, credits, k + 1, benefit, period, user_card_id)

\* Lines 77-104 for the benefits of a card from the b-th on.
RECURSIVE CardWork(_, _, _, _, _, _, _)
CardWork(txns, credits, benefits, b, day, card_anniversary, user_card_id) ==
    IF b > Len(benefits) THEN <<>>
    ELSE IF ~AutoTracked(benefits[b])
    THEN CardWork(txns, credits, benefits, b + 1, day, card_anniversary, user_card_id)
    ELSE MatchingCredits(txns, credits, 1, benefits[b],
                         DetectorPeriod(benefits[b], day, card_anniversary), user_card_id)
         \o CardWork(txns, credits, benefits, b + 1, day, card_anniversary, user_card_id)

\* A period computation of lines 90-95 raises for some tracked benefit.
CardRaises(benefits, day, card_anniversary) ==
    \E b \in 1..Len(benefits) :
        /\ AutoTracked(benefits[b])
        /\ DetectorPeriod(benefits[b], day, card_anniversary) = PeriodError

\* Lines 71-75: the indexes of the user's credit transactions on a card.
RECURSIVE Credits(_, _, _, _)
Credits(txns, k, user_id, card_config_id) ==
    IF k > Len(txns) THEN <<>>
    ELSE (IF /\ txns[k].user_id = user_id
             /\ txns[k].card_config_id = card_config_id
             /\ txns[k].amount < 0
          THEN <<k>> ELSE <<>>)
         \o Credits(txns, k + 1, user_id, card_config_id)

\* Lines 62-68: the card's anniversary; a ValueError is swallowed.
DetectorAnniversary(card_anniversary, day) ==
    IF parse_anniversary_to_date(card_anniversary, day) = ValueError THEN NoDate
    ELSE parse_anniversary_to_date(card_anniversary, day)

\* The elements of a finite set in a fixed order (the order of a query
\* without ORDER BY over rows that are not a sequence in the model).
RECURSIVE SetToSeq(_)
SetToSeq(S) ==
    IF S = {} THEN <<>>
    ELSE LET x == CHOOSE y \in S : TRUE IN <<x>> \o SetToSeq(S \ {x})

\* Lines 41-56: the session of a detector run after the query of the user's
\* active cards; cards holds the rows as loaded.
DetectBegin(user_id, day, ucards) ==
    LET ids == SetToSeq({ id \in DOMAIN ucards :
                            ucards[id].user_id = user_id /\ ucards[id].active = 1 })
    IN [NewSession(day) EXCEPT
            !.kind   = "detect",
            !.cards  = [i \in 1..Len(ids) |-> [id |-> ids[i], row |-> ucards[ids[i]]]],
            !.status = IF Len(ids) = 0 THEN "returned" ELSE "running"]

\* Lines 58-104 for the next card: its config and credits are read, and the
\* matching transactions of its tracked benefits are queued in loop order.
DetectLoadCard(s, configs, txns) ==
    LET user_card == Head(s.cards)
        benefits  == configs[user_card.row.card_config_id].benefits
        anniv     == DetectorAnniversary(user_card.row.card_anniversary, s.today)
        credits   == Credits(txns, 1, user_card.row.user_id, user_card.row.card_config_id)
    IN IF CardRaises(benefits, s.today, anniv)
       THEN [s EXCEPT !.status = "raised", !.cards = <<>>, !.work = <<>>]
       ELSE [s EXCEPT
                !.cards    = Tail(@),
                !.work     = CardWork(txns, credits, benefits, 1, s.today, anniv,
                                      user_card.id),
                !.txn_orig = [i \in { credits[k] : k \in 1..Len(credits) } |->
                                 txns[i].benefit_slug] @@ @]

\* The detector run of session s to the point of its db.commit(), against
\* tables that no other request changes meanwhile.
RECURSIVE DetectToCommit(_, _, _, _)
DetectToCommit(s, configs, txns, periods) ==
    IF s.status # "running" THEN s
    ELSE IF Len(s.work) > 0
    THEN DetectToCommit(DetectRecord(s, periods, txns), configs, txns, periods)
    ELSE IF Len(s.cards) > 0
    THEN DetectToCommit(DetectLoadCard(s, configs, txns), configs, txns, periods)
    ELSE s

(***************************************************************************)
(* mark_benefit_used                                                        *)
(***************************************************************************)
\* OwnedCard without the filter on the caller.
OwnedCardOfAnyUser(ucards, user_card_id, user_id) == user_card_id \in DOMAIN ucards

\* db.query(UserCard).filter(UserCard.id == user_card_id,
\*                           UserCard.user_id == current_user.id).first()
\* finds a row.
OwnedCard(ucards, user_card_id, user_id) ==
    /\ user_card_id \in DOMAIN ucards
    /\ ucards[user_card_id].user_id = user_id

\* Line 109: strptime(card_anniversary, "%Y-%m-%d") takes only YYYY-MM-DD.
MarkAnniversary(card_anniversary) ==
    IF card_anniversary.len = 10 THEN strptime_ymd(card_anniversary.text) ELSE ValueError

\* MarkedExisting with completed recomputed from the new total on every mark.
MarkedExistingRecomputed(existing, new_total, benefit_limit, now) ==
    [existing EXCEPT !.manual_checked = 1,
                     !.amount_used    = new_total,
                     !.usage_count    = @ + 1,
                     !.completed      = IF new_total >= benefit_limit THEN 1 ELSE 0,
                     !.completed_at   = IF new_total >= benefit_limit THEN now ELSE NoTime]

\* Lines 134-158: the existing period after the mark.
MarkedExisting(existing, new_total, benefit_limit, now) ==
    [existing EXCEPT !.manual_checked = 1,
                     !.amount_used    = new_total,
                     !.usage_count    = @ + 1,
                     !.completed      = IF new_total >= benefit_limit THEN 1 ELSE @,
                     !.completed_at   = IF new_total >= benefit_limit THEN now ELSE @]

\* ExceedsLimit with the validation left out.
ExceedsLimitNever(total, benefit_limit) == FALSE

\* Lines 140 and 176: the amount would bring the period above the limit.
ExceedsLimit(total, benefit_limit) == total > benefit_limit

\* Lines 182-195: the period a mark creates.
MarkedPeriod(period_end, amount, benefit_limit, now) ==
    [period_end     |-> isoformat(period_end),
     amount_limit   |-> benefit_limit,
     amount_used    |-> amount,
     usage_count    |-> 1,
     completed      |-> IF amount >= benefit_limit THEN 1 ELSE 0,
     completed_at   |-> IF amount >= benefit_limit THEN now ELSE NoTime,
     manual_checked |-> 1]

\* mark_benefit_used up to its db.commit(): the session, with the status of
\* the response in status ("commit" when the handler reaches db.commit()).
mark_benefit_used(request, user_id, day, ucards, configs, periods) ==
    LET s0 == [NewSession(day) EXCEPT !.kind = "mark"]
        owned == OwnedCard(ucards, request.user_card_id, user_id)
    IN IF ~owned THEN [s0 EXCEPT !.status = "404"]
       ELSE
       LET user_card == ucards[request.user_card_id]
           benefits  == configs[user_card.card_config_id].benefits
           found     == { b \in 1..Len(benefits) : benefits[b].slug = request.benefit_slug }
       IN IF found = {} THEN [s0 EXCEPT !.status = "404"]
          ELSE
          LET benefit_config == benefits[CHOOSE b \in found : \A c \in found : b <= c]
              cadence    == Get(benefit_config, "cadence", "monthly")
              reset_type == Get(benefit_config, "reset_type", NULL)
              parses     == user_card.card_anniversary # NoText /\ reset_type = "cardmember_year"
              card_anniversary ==
                  IF parses THEN MarkAnniversary(user_card.card_anniversary) ELSE NoDate
              period     == get_period_boundaries(cadence, day, card_anniversary, NULL,
                                                  DefaultResetYears, NoDate)
              key        == PeriodKey(request.user_card_id, request.benefit_slug, period[1])
              benefit_limit == Get(benefit_config, "value", 0)
              now        == utcnow(day)
          IN IF card_anniversary = ValueError \/ period = PeriodError
             THEN [s0 EXCEPT !.status = "500"]
             ELSE IF request.has_amount /\ request.amount <= 0
             THEN [s0 EXCEPT !.status = "400",
                             !.detail = "Amount must be greater than zero"]
             ELSE IF key \in DOMAIN periods
             THEN LET existing      == periods[key]
                      amount_to_add == IF request.has_amount THEN request.amount
                                       ELSE benefit_limit - existing.amount_used
                      new_total     == existing.amount_used + amount_to_add
                  IN IF ExceedsLimit(new_total, benefit_limit)
                     THEN [s0 EXCEPT !.status = "400",
                                     !.detail = "Amount would exceed benefit limit"]
                     ELSE [Modify(s0, periods, key,
                                  MarkedExisting(existing, new_total, benefit_limit, now))
                              EXCEPT !.status = "commit"]
             ELSE LET amount == IF request.has_amount THEN request.amount ELSE benefit_limit
                  IN IF ExceedsLimit(amount, benefit_limit)
                     THEN [s0 EXCEPT !.status = "400",
                                     !.detail = "Amount exceeds benefit limit"]
                     ELSE [s0 EXCEPT !.status = "commit",
                                     !.new = (key :> MarkedPeriod(period[2], amount,
                                                                  benefit_limit, now)) @@ @]

(***************************************************************************)
(* parse_csv and the catalog loader                                         *)
(***************************************************************************)
\* Lines 68-74 of parse_csv: the first card config one of whose account
\* patterns is a substring of the lower-cased account, or NULL.
MatchAccount(account, configs) ==
    LET ids  == SetToSeq(DOMAIN configs)
        hits == { i \in 1..Len(ids) :
                    \E k \in 1..Len(configs[ids[i]].account_patterns) :
                        Contains(lower(account), lower(configs[ids[i]].account_patterns[k])) }
    IN IF hits = {} THEN NULL ELSE ids[CHOOSE i \in hits : \A j \in hits : i <= j]

\* The key without the account.
DedupKeyWithoutAccount(row) == <<row.date, row.name, row.amount>>

\* Line 60: dedup_key.
DedupKey(row) == <<row.date, row.name, row.amount, row.account>>

\* Lines 40-117 of parse_csv from row k of the file on; acc holds the rows
\* added to the session, the keys seen in the file and the two counters.
RECURSIVE ParseRows(_, _, _, _, _, _)
ParseRows(file, k, acc, user_id, txns, configs) ==
    IF k > Len(file) THEN acc
    ELSE LET row == file[k]
             dup_in_db == \E i \in 1..Len(txns) :
                             /\ txns[i].user_id = user_id
                             /\ DedupKey(txns[i]) = DedupKey(row)
         IN IF DedupKey(row) \in acc.seen_in_file
            THEN ParseRows(file, k + 1, [acc EXCEPT !.skipped = @ + 1],
                           user_id, txns, configs)
            ELSE IF dup_in_db
            THEN ParseRows(file, k + 1,
                           [acc EXCEPT !.skipped = @ + 1,
                                       !.seen_in_file = @ \cup {DedupKey(row)}],
                           user_id, txns, configs)
            ELSE ParseRows(file, k + 1,
                           [acc EXCEPT !.imported = @ + 1,
                                       !.seen_in_file = @ \cup {DedupKey(row)},
                                       !.added = Append(@,
                                           [user_id |-> user_id,
                                            card_config_id |-> MatchAccount(row.account, configs),
                                            date |-> row.date, name |-> row.name,
                                            amount |-> row.amount, account |-> row.account,
                                            benefit_slug |-> NULL])],
                           user_id, txns, configs)

parse_csv(file, user_id, txns, configs) ==
    ParseRows(file, 1, [added |-> <<>>, seen_in_file |-> {}, imported |-> 0, skipped |-> 0],
              user_id, txns, configs)

\* _load_single_config on a YAML file of a slug the table holds: the
\* benefits and account patterns of the row are replaced.
LoadSingleConfig(existing, yaml_benefits) ==
    [existing EXCEPT !.benefits = yaml_benefits, !.account_patterns = AccountPatterns]

(***************************************************************************)
(* Refresh sessions (api/auth.py).                                          *)
(***************************************************************************)
\* settings.refresh_token_expire_days
refresh_token_expire_days == 7

\* The registered users.
AuthUsers == {"u1", "u2"}

\* hashlib.sha256(token_id.encode("utf-8")).hexdigest(): the digest of a
\* token id; distinct ids have distinct digests.
hash_token_id(token_id) == <<"sha256", token_id>>

\* create_refresh_token: the signed JWT of the claims in data.
create_refresh_token(data) ==
    [sub |-> data.sub, jti |-> data.jti, exp |-> data.exp, type |-> "refresh"]

\* create_refresh_session: adds the session of a fresh jti (uuid4: the ids
\* are numbered in the order of their sessions) and returns the table and
\* the token.
create_refresh_session(sessions, user_id, rotated_from_id, now) ==
    LET jti        == Len(sessions) + 1
        expires_at == now + refresh_token_expire_days
        session    == [user_id |-> user_id, jti_hash |-> hash_token_id(jti),
                       expires_at |-> expires_at, revoked_at |-> NoTime,
                       last_used_at |-> NoTime, rotated_from_id |-> rotated_from_id]
    IN [sessions |-> Append(sessions, session),
        refresh_token |-> create_refresh_token(
                              [sub |-> user_id, jti |-> jti, exp |-> expires_at])]

\* revoke_all_user_sessions: one UPDATE of the active sessions of the user.
revoke_all_user_sessions(sessions, user_id, now) ==
    [i \in DOMAIN sessions |->
        IF sessions[i].user_id = user_id /\ sessions[i].revoked_at = NoTime
        THEN [sessions[i] EXCEPT !.revoked_at = now, !.last_used_at = now]
        ELSE sessions[i]]

\* The refresh cookie that was set when session i was created.
IssuedToken(sessions, i) ==
    create_refresh_token([sub |-> sessions[i].user_id, jti |-> i,
                          exp |-> sessions[i].expires_at])

\* refresh_tokens up to the point where the session is modified: the id of
\* the session the cookie names, or 0 for a 401 response. jwt.decode rejects
\* a token whose exp has passed.
ValidateRefresh(cookie, sessions, now) ==
    LET found == { i \in DOMAIN sessions :
                      /\ sessions[i].user_id = cookie.sub
                      /\ sessions[i].jti_hash = hash_token_id(cookie.jti) }
    IN IF cookie.exp < now \/ cookie.type # "refresh" THEN 0
       ELSE IF found = {} THEN 0
       ELSE LET i == CHOOSE i \in found : TRUE
            IN IF sessions[i].revoked_at # NoTime THEN 0
               ELSE IF sessions[i].expires_at <= now THEN 0
               ELSE IF sessions[i].user_id \notin AuthUsers THEN 0
               ELSE i

\* refresh_tokens from the point where the session is modified: the old
\* session is revoked and the new one is inserted.
RotateSession(sessions, session_id, now) ==
    create_refresh_session(
        [sessions EXCEPT ![session_id].revoked_at = now,
                         ![session_id].last_used_at = now],
        sessions[session_id].user_id, session_id, now).sessions

(***************************************************************************)
(* The card routes (api/cards.py) and the status projection.                *)
(***************************************************************************)
\* update_user_card: the status and the user_cards table.  A field of
\* card_data that is None is left alone (has_anniversary, has_active).
update_user_card(user_card_id, card_data, user_id, ucards) ==
    IF ~OwnedCard(ucards, user_card_id, user_id)
    THEN [status |-> "404", user_cards |-> ucards]
    ELSE [status |-> "200",
          user_cards |->
             [ucards EXCEPT
                 ![user_card_id].card_anniversary =
                     IF card_data.has_anniversary THEN card_data.card_anniversary ELSE @,
                 ![user_card_id].active =
                     IF card_data.has_active THEN (IF card_data.active THEN 1 ELSE 0) ELSE @]]

\* remove_card_from_portfolio: the status and the tables.  db.delete of the
\* card deletes its benefit periods and benefit settings with it (cascade
\* "all, delete-orphan"); transactions have no reference to the user card.
remove_card_from_portfolio(user_card_id, user_id, ucards, periods, settings) ==
    IF ~OwnedCard(ucards, user_card_id, user_id)
    THEN [status |-> "404", user_cards |-> ucards, benefit_periods |-> periods,
          benefit_settings |-> settings]
    ELSE [status |-> "204",
          user_cards |-> [c \in DOMAIN ucards \ {user_card_id} |-> ucards[c]],
          benefit_periods |-> [k \in { j \in DOMAIN periods : j[1] # user_card_id } |-> periods[k]],
          benefit_settings |-> [k \in { j \in DOMAIN settings : j[1] # user_card_id } |-> settings[k]]]

\* get_benefit_history: the status and the periods of the card and benefit.
get_benefit_history(user_card_id, benefit_slug, user_id, ucards, periods) ==
    IF ~OwnedCard(ucards, user_card_id, user_id)
    THEN [status |-> "404", periods |-> {}]
    ELSE [status |-> "200",
          periods |-> { k \in DOMAIN periods : k[1] = user_card_id /\ k[2] = benefit_slug }]

\* get_benefit_settings: the status and the settings of the card.
get_benefit_settings(user_card_id, user_id, ucards, settings) ==
    IF ~OwnedCard(ucards, user_card_id, user_id)
    THEN [status |-> "404", settings |-> {}]
    ELSE [status |-> "200", settings |-> { k \in DOMAIN settings : k[1] = user_card_id }]

\* update_benefit_setting: the status.  The body BenefitSettingUpdate has the
\* fields benefit_slug, hidden and notes; the handler reads
\* setting_data.muted, which raises AttributeError before db.commit(), so
\* the request of an owner ends with 500 and the table is not written.
update_benefit_setting(user_card_id, user_id, ucards) ==
    IF ~OwnedCard(ucards, user_card_id, user_id) THEN "404" ELSE "500"

\* Days of the months of year y before month m.
RECURSIVE DaysBeforeMonth(_, _)
DaysBeforeMonth(y, m) ==
    IF m <= 1 THEN 0 ELSE DaysBeforeMonth(y, m - 1) + DaysInMonth(y, m - 1)

\* d.toordinal(), so that (a - b).days = toordinal(a) - toordinal(b).
toordinal(d) ==
    LET y == d.year - 1
    IN y * 365 + (y \div 4) - (y \div 100) + (y \div 400)
       + DaysBeforeMonth(d.year, d.month) + d.day

\* BenefitStatus with the expiry rules tried before the usage rules.
BenefitStatusExpiryFirst(tracking_mode, has_record, completed, amount_used, days_left) ==
    IF tracking_mode = "info" THEN "info"
    ELSE IF days_left <= 0 THEN "expired"
    ELSE IF days_left <= 7 THEN "expiring"
    ELSE IF has_record /\ completed # 0 THEN "used"
    ELSE IF has_record /\ amount_used > 0 THEN "partial"
    ELSE "available"

\* Lines 330-343 of get_benefit_status_for_user: the status of a benefit.
BenefitStatus(tracking_mode, has_record, completed, amount_used, days_left) ==
    IF tracking_mode = "info" THEN "info"
    ELSE IF has_record /\ completed # 0 THEN "used"
    ELSE IF has_record /\ amount_used > 0 THEN "partial"
    ELSE IF days_left <= 0 THEN "expired"
    ELSE IF days_left <= 7 THEN "expiring"
    ELSE "available"

\* Lines 280-288: computing the next renewal date of the card raises.
RenewalRaises(card_anniversary, day) ==
    /\ card_anniversary # NoDate
    /\ LET next_anniversary == date(day.year, card_anniversary.month, card_anniversary.day)
       IN \/ next_anniversary = ValueError
          \/ /\ DateLE(next_anniversary, day)
             /\ date(day.year + 1, card_anniversary.month, card_anniversary.day) = ValueError

\* Lines 302-360: the entry of one benefit of a card.
StatusItem(user_card_id, benefit, day, card_anniversary, periods, is_hidden) ==
    LET period       == DetectorPeriod(benefit, day, card_anniversary)
        key          == PeriodKey(user_card_id, benefit.slug, period[1])
        has_record   == key \in DOMAIN periods
        days_left    == toordinal(period[2]) - toordinal(day)
        tracking_mode == Get(benefit, "tracking_mode", "manual")
    IN [slug           |-> benefit.slug,
        tracking_mode  |-> tracking_mode,
        period_start   |-> isoformat(period[1]),
        period_end     |-> isoformat(period[2]),
        days_remaining |-> IF days_left > 0 THEN days_left ELSE 0,
        status         |-> BenefitStatus(tracking_mode, has_record,
                                         IF has_record THEN periods[key].completed ELSE 0,
                                         IF has_record THEN periods[key].amount_used ELSE 0,
                                         days_left),
        amount_used    |-> IF has_record THEN periods[key].amount_used ELSE 0,
        amount_limit   |-> Get(benefit, "value", 0),
        hidden         |-> is_hidden]

\* get_benefit_status_for_user with include_hidden False: status "500" when
\* a date or a period of an active card raises, else the entries by
\* <<user_card_id, position of the benefit in the catalog>>.
get_benefit_status_for_user(user_id, day, ucards, configs, periods, settings) ==
    LET cards == { c \in DOMAIN ucards : ucards[c].user_id = user_id /\ ucards[c].active = 1 }
        Anniv(c) == DetectorAnniversary(ucards[c].card_anniversary, day)
        Benefits(c) == configs[ucards[c].card_config_id].benefits
        Hidden(c, b) == /\ <<c, Benefits(c)[b].slug>> \in DOMAIN settings
                        /\ settings[<<c, Benefits(c)[b].slug>>].user_id = user_id
                        /\ settings[<<c, Benefits(c)[b].slug>>].muted = 1
        shown == UNION { { <<c, b>> : b \in { x \in 1..Len(Benefits(c)) : ~Hidden(c, x) } } :
                         c \in cards }
        raises == \E c \in cards :
                     \/ RenewalRaises(Anniv(c), day)
                     \/ \E b \in 1..Len(Benefits(c)) :
                           /\ ~Hidden(c, b)
                           /\ DetectorPeriod(Benefits(c)[b], day, Anniv(c)) = PeriodError
    IN IF raises THEN [status |-> "500", benefits |-> EmptyMap]
       ELSE [status |-> "200",
             benefits |-> [k \in shown |->
                              StatusItem(k[1], Benefits(k[1])[k[2]], day, Anniv(k[1]),
                                         periods, FALSE)]]

(***************************************************************************)
(* The requests served one at a time.                                       *)
(***************************************************************************)
\* The server's workers, each serving one request at a time.
Workers == {"w1", "w2"}

\* A worker that serves no request.
Idle == [NewSession(NoDate) EXCEPT !.status = "idle"]

\* No request has been served concurrently yet.
NoRuns == [detects |-> 0, overlapped |-> FALSE, manual |-> FALSE]

NoRequest == [op |-> "none", status |-> "none", detail |-> "", detected |-> 0,
              touched_completed |-> FALSE, manual |-> FALSE]

\* The record of a request: the operation, the status of the response, the
\* detected count of a detector run, whether the request wrote to a period
\* that was completed before it, and whether a mark-used request has
\* succeeded so far.
Served(op, status) ==
    [op |-> op, status |-> status, detail |-> "", detected |-> 0,
     touched_completed |-> FALSE, manual |-> last.manual]

\* Session s is about to write to a period that is completed.
TouchesCompleted(s, periods) ==
    \E k \in DOMAIN s.loaded : k \in DOMAIN periods /\ periods[k].completed = 1

\* No response yet.
NoResponse == [op |-> "none"]

\* No benefit setting is stored and no card route has answered.
ExtInit ==
    /\ benefit_settings = EmptyMap
    /\ response = NoResponse

\* No refresh request is being served by worker p.
NotRefreshing == [status |-> "idle", session_id |-> 0]

\* Nobody has logged in.
AuthInit ==
    /\ refresh_sessions = <<>>
    /\ clock = 1
    /\ refreshing = [p \in Workers |-> NotRefreshing]
    /\ accepted = [j \in 1..MaxSessions |-> 0]
    /\ logged_out = [u \in AuthUsers |-> FALSE]

Init ==
    /\ today = Days[1]
    /\ \E y \in YamlFiles :
         card_configs = [c \in CardConfigIds |-> [benefits |-> y, account_patterns |-> AccountPatterns]]
    /\ \E a \in Anniversaries :
         user_cards = [c \in UserCardIds |->
                          [user_id |-> "u1", card_config_id |-> "cc1",
                           card_anniversary |-> a, active |-> 1]]
    /\ transactions = <<>>
    /\ benefit_periods = EmptyMap
    /\ last = NoRequest
    /\ inflight = [p \in Workers |-> Idle]
    /\ outcome = "none"
    /\ runs = NoRuns
    /\ AuthInit
    /\ ExtInit

\* The guard that keeps the usage counters of the model finite.
WithinBounds == \A k \in DOMAIN benefit_periods : benefit_periods[k].usage_count < MaxUsageCount

\* POST /transactions/upload
Upload(user_id, file) ==
    LET r == parse_csv(file, user_id, transactions, card_configs)
    IN /\ transactions' = transactions \o r.added
       /\ last' = Served("upload", "200")
       /\ UNCHANGED <<today, card_configs, user_cards, benefit_periods, concVars, authVars, extVars>>

\* POST /benefits/detect
Detect(user_id) ==
    LET s == DetectToCommit(DetectBegin(user_id, today, user_cards),
                            card_configs, transactions, benefit_periods)
        commits == s.status = "running" /\ ~FlushFails(s, benefit_periods)
    IN /\ WithinBounds
       /\ benefit_periods' = IF commits THEN FlushPeriods(s, benefit_periods)
                             ELSE benefit_periods
       /\ transactions' = IF commits THEN FlushTransactions(s, transactions)
                          ELSE transactions
       /\ last' = [Served("detect", IF commits \/ s.status = "returned" THEN "200" ELSE "500")
                      EXCEPT !.detected = s.detected_count,
                             !.touched_completed =
                                 commits /\ TouchesCompleted(s, benefit_periods)]
       /\ UNCHANGED <<today, card_configs, user_cards, concVars, authVars, extVars>>

\* POST /benefits/mark-used
MarkUsed(user_id, request) ==
    LET s == mark_benefit_used(request, user_id, today, user_cards, card_configs,
                               benefit_periods)
        commits == s.status = "commit" /\ ~FlushFails(s, benefit_periods)
    IN /\ WithinBounds
       /\ benefit_periods' = IF commits THEN FlushPeriods(s, benefit_periods)
                             ELSE benefit_periods
       /\ last' = [Served("mark", IF commits THEN "200"
                                  ELSE IF s.status = "commit" THEN "500" ELSE s.status)
                      EXCEPT !.detail = s.detail,
                             !.touched_completed =
                                 commits /\ TouchesCompleted(s, benefit_periods),
                             !.manual = @ \/ commits]
       /\ UNCHANGED <<today, card_configs, user_cards, transactions, concVars, authVars, extVars>>

\* A restart of the service: load_card_configs upserts the YAML files.
Reload(yaml) ==
    /\ card_configs' = [c \in DOMAIN card_configs |-> LoadSingleConfig(card_configs[c], yaml)]
    /\ card_configs' # card_configs
    /\ last' = Served("reload", "200")
    /\ UNCHANGED <<today, user_cards, transactions, benefit_periods, concVars, authVars, extVars>>

\* The calendar day changes.
NextDay ==
    /\ \E i \in 1..(Len(Days) - 1) : today = Days[i] /\ today' = Days[i + 1]
    /\ last' = Served("day", "none")
    /\ UNCHANGED <<card_configs, user_cards, transactions, benefit_periods, concVars, authVars, extVars>>

\* The benefits that mark-used requests name.
MarkSlugs == {"dining"}

MarkRequests ==
    { [user_card_id |-> c, benefit_slug |-> b, has_amount |-> h, amount |-> a] :
        c \in UserCardIds, b \in MarkSlugs, h \in {TRUE}, a \in MarkAmounts }
    \cup
    { [user_card_id |-> c, benefit_slug |-> b, has_amount |-> FALSE, amount |-> 0] :
        c \in UserCardIds, b \in MarkSlugs }

Next ==
    \/ \E u \in UserIds, f \in CsvFiles : Upload(u, f)
    \/ \E u \in UserIds : Detect(u)
    \/ \E u \in UserIds, r \in MarkRequests : MarkUsed(u, r)
    \/ \E y \in YamlFiles : Reload(y)
    \/ NextDay

Spec == Init /\ [][Next]_vars

(***************************************************************************)
(* Properties of the usage engine, checked under Spec.                      *)
(***************************************************************************)
Min(a, b) == IF a <= b THEN a ELSE b

RECURSIVE SumAmounts(_, _)
SumAmounts(txns, S) ==
    IF S = {} THEN 0
    ELSE LET i == CHOOSE j \in S : TRUE IN Abs(txns[i].amount) + SumAmounts(txns, S \ {i})

\* C1: detector idempotence. A detector run that directly follows a
\* successful detector run leaves every BenefitPeriod and every
\* Transaction.benefit_slug as the first run left them and reports
\* detected = 0.
C1_DetectorIdempotent ==
    [][(last.op = "detect" /\ last.status = "200" /\ last'.op = "detect")
        => (/\ benefit_periods' = benefit_periods
            /\ transactions' = transactions
            /\ last'.detected = 0)]_vars

\* C2: in every reachable state every BenefitPeriod has
\* 0 <= amount_used <= amount_limit.
C2_UsedWithinLimit ==
    \A k \in DOMAIN benefit_periods :
        /\ benefit_periods[k].amount_used >= 0
        /\ benefit_periods[k].amount_used <= benefit_periods[k].amount_limit

\* C3: usage monotonicity. No request leaves the amount_used of a
\* BenefitPeriod lower than it was.
C3_UsageMonotone ==
    [][\A k \in DOMAIN benefit_periods :
          k \in DOMAIN benefit_periods'
          => benefit_periods'[k].amount_used >= benefit_periods[k].amount_used]_vars

\* C4: completion stability. A BenefitPeriod that is completed stays
\* completed under every later detector run and mark-used request.
C4_CompletionStable ==
    [][\A k \in DOMAIN benefit_periods :
          (benefit_periods[k].completed = 1 /\ k \in DOMAIN benefit_periods')
          => benefit_periods'[k].completed = 1]_vars

\* C4 witness: a detector run or a mark-used request has written to a
\* period that was completed before it, and the period is still completed.
C4_Witness ==
    /\ last.op \in {"detect", "mark"}
    /\ last.status = "200"
    /\ last.touched_completed
    /\ \E k \in DOMAIN benefit_periods :
          benefit_periods[k].completed = 1 /\ benefit_periods[k].usage_count >= 2

\* C5: every BenefitPeriod is completed exactly when its amount_used has
\* reached its own amount_limit, and a completed period has completed_at set.
C5_CompletedIffLimit ==
    \A k \in DOMAIN benefit_periods :
        /\ (benefit_periods[k].completed = 1)
             <=> (benefit_periods[k].amount_used >= benefit_periods[k].amount_limit)
        /\ benefit_periods[k].completed = 1 => benefit_periods[k].completed_at # NoTime

\* The indexes of the transactions that the detector counts for a benefit
\* of a user card on a day.
CountedCredits(user_card, benefit, day) ==
    LET period == DetectorPeriod(benefit, day,
                                 DetectorAnniversary(user_card.card_anniversary, day))
    IN { i \in 1..Len(transactions) :
           /\ transactions[i].user_id = user_card.user_id
           /\ transactions[i].card_config_id = user_card.card_config_id
           /\ transactions[i].amount < 0
           /\ _parse_transaction_date(transactions[i].date) # NoDate
           /\ ~DateLT(_parse_transaction_date(transactions[i].date), period[1])
           /\ ~DateLT(period[2], _parse_transaction_date(transactions[i].date))
           /\ _matches_patterns(transactions[i].name,
                                benefit.detection_rules.credit_patterns) }

\* C6: after detector runs and no manual mark, the current period of every
\* auto-tracked benefit of every active card holds min(limit, sum of the
\* matching credits of the period) and counts those credits.
C6_DetectorTotals ==
    (last.op = "detect" /\ last.status = "200" /\ ~last.manual)
    => \A c \in DOMAIN user_cards :
         user_cards[c].active = 1 =>
           LET benefits == card_configs[user_cards[c].card_config_id].benefits
           IN \A b \in 1..Len(benefits) :
                AutoTracked(benefits[b]) =>
                  LET counted == CountedCredits(user_cards[c], benefits[b], today)
                      period  == DetectorPeriod(benefits[b], today,
                                     DetectorAnniversary(user_cards[c].card_anniversary, today))
                      key     == PeriodKey(c, benefits[b].slug, period[1])
                  IN counted # {} =>
                       /\ key \in DOMAIN benefit_periods
                       /\ benefit_periods[key].amount_used =
                              Min(benefit_periods[key].amount_limit,
                                  SumAmounts(transactions, counted))
                       /\ benefit_periods[key].usage_count = Cardinality(counted)

\* The stored periods of the card and benefit that contain the day.
CurrentPeriods(user_card_id, benefit_slug, day) ==
    { k \in DOMAIN benefit_periods :
        /\ k[1] = user_card_id /\ k[2] = benefit_slug
        /\ k[3] <= isoformat(day) /\ isoformat(day) <= benefit_periods[k].period_end }

\* The catalog value of the benefit the request names, or -1 when the card
\* is not the caller's or has no such benefit.
RequestLimit(user_id, request) ==
    IF request.user_card_id \notin DOMAIN user_cards THEN -1
    ELSE IF user_cards[request.user_card_id].user_id # user_id THEN -1
    ELSE LET benefits == card_configs[user_cards[request.user_card_id].card_config_id].benefits
             found    == { b \in 1..Len(benefits) : benefits[b].slug = request.benefit_slug }
         IN IF found = {} THEN -1
            ELSE Get(benefits[CHOOSE b \in found : \A c \in found : b <= c], "value", 0)

\* The request gives an amount that is not positive, or that added to what
\* the current period holds is above the limit of the benefit.
InvalidAmount(user_id, request) ==
    /\ request.has_amount
    /\ RequestLimit(user_id, request) >= 0
    /\ \/ request.amount <= 0
       \/ \E k \in CurrentPeriods(request.user_card_id, request.benefit_slug, today) :
             benefit_periods[k].amount_used + request.amount > RequestLimit(user_id, request)
       \/ /\ CurrentPeriods(request.user_card_id, request.benefit_slug, today) = {}
          /\ request.amount > RequestLimit(user_id, request)

ConcInit ==
    /\ today = Days[1]
    /\ \E y \in YamlFiles :
         card_configs = [c \in CardConfigIds |-> [benefits |-> y, account_patterns |-> AccountPatterns]]
    /\ user_cards = [c \in UserCardIds |->
                        [user_id |-> "u1", card_config_id |-> "cc1",
                         card_anniversary |-> MMDD(7, 15), active |-> 1]]
    /\ \E f \in CsvFiles :
         transactions = parse_csv(f, "u1", <<>>, card_configs).added
    /\ benefit_periods = EmptyMap
    /\ last = NoRequest
    /\ inflight = [p \in Workers |-> Idle]
    /\ outcome = "none"
    /\ runs = NoRuns
    /\ AuthInit
    /\ ExtInit

seqVars == <<today, card_configs, user_cards, last>>

\* The worker ends its request without a commit.
Respond(p, status) ==
    /\ inflight' = [inflight EXCEPT ![p] = Idle]
    /\ outcome' = status

\* Session s has reached the db.commit() of its handler.
AtCommit(s) ==
    \/ s.kind = "detect" /\ s.status = "running" /\ Len(s.work) = 0 /\ Len(s.cards) = 0
    \/ s.kind = "mark" /\ s.status = "commit"

\* detect_benefits_for_user, lines 41-56.
ConcDetectBegin(p, user_id) ==
    LET s == DetectBegin(user_id, today, user_cards)
    IN /\ inflight[p].status = "idle"
       /\ WithinBounds
       /\ IF s.status = "running"
          THEN inflight' = [inflight EXCEPT ![p] = s] /\ outcome' = outcome
          ELSE Respond(p, "200")
       /\ runs' = [runs EXCEPT
                     !.detects = Min(@ + 1, 3),
                     !.overlapped = @ \/ \E q \in Workers \ {p} : inflight[q].kind = "detect"]
       /\ UNCHANGED <<seqVars, authVars, extVars, transactions, benefit_periods>>

\* detect_benefits_for_user, lines 58-104 for the next card.
ConcDetectLoadCard(p) ==
    LET s == DetectLoadCard(inflight[p], card_configs, transactions)
    IN /\ inflight[p].kind = "detect" /\ inflight[p].status = "running"
       /\ Len(inflight[p].work) = 0 /\ Len(inflight[p].cards) > 0
       /\ IF s.status = "running"
          THEN inflight' = [inflight EXCEPT ![p] = s] /\ outcome' = outcome
          ELSE Respond(p, "500")
       /\ UNCHANGED <<seqVars, authVars, extVars, transactions, benefit_periods, runs>>

\* detect_benefits_for_user, lines 106-129 for the next matching transaction.
ConcDetectRecord(p) ==
    /\ inflight[p].kind = "detect" /\ inflight[p].status = "running"
    /\ Len(inflight[p].work) > 0
    /\ inflight' = [inflight EXCEPT ![p] =
                       DetectRecord(inflight[p], benefit_periods, transactions)]
    /\ UNCHANGED <<seqVars, authVars, extVars, transactions, benefit_periods, outcome, runs>>

\* mark_benefit_used up to its db.commit().
ConcMarkBegin(p, user_id, request) ==
    LET s == mark_benefit_used(request, user_id, today, user_cards, card_configs,
                               benefit_periods)
    IN /\ inflight[p].status = "idle"
       /\ WithinBounds
       /\ IF s.status = "commit"
          THEN inflight' = [inflight EXCEPT ![p] = s] /\ outcome' = outcome
          ELSE Respond(p, s.status)
       /\ runs' = [runs EXCEPT !.manual = TRUE]
       /\ UNCHANGED <<seqVars, authVars, extVars, transactions, benefit_periods>>

\* db.commit(): the flush and the COMMIT, or the rollback when the flush
\* raises (the exception leaves the handler as a 500).
ConcCommit(p) ==
    /\ AtCommit(inflight[p])
    /\ IF FlushFails(inflight[p], benefit_periods)
       THEN /\ UNCHANGED <<benefit_periods, transactions>>
            /\ Respond(p, "IntegrityError")
       ELSE /\ benefit_periods' = FlushPeriods(inflight[p], benefit_periods)
            /\ transactions' = FlushTransactions(inflight[p], transactions)
            /\ Respond(p, "200")
    /\ UNCHANGED <<seqVars, authVars, extVars, runs>>

\* The request is cancelled or fails before its db.commit(): get_db closes
\* the session, which rolls back.
ConcCancel(p) ==
    /\ inflight[p].status \in {"running", "commit"}
    /\ Respond(p, "cancelled")
    /\ UNCHANGED <<seqVars, authVars, extVars, transactions, benefit_periods, runs>>

ConcNext ==
    \/ \E p \in Workers, u \in UserIds : ConcDetectBegin(p, u)
    \/ \E p \in Workers : ConcDetectLoadCard(p)
    \/ \E p \in Workers : ConcDetectRecord(p)
    \/ \E p \in Workers, u \in UserIds, r \in MarkRequests : ConcMarkBegin(p, u, r)
    \/ \E p \in Workers : ConcCommit(p)
    \/ \E p \in Workers : ConcCancel(p)

SpecConc == ConcInit /\ [][ConcNext]_vars

(***************************************************************************)
(* Properties of concurrent requests, checked under SpecConc.               *)
(***************************************************************************)
AllIdle == \A p \in Workers : inflight[p].status = "idle"

\* C7: at-most-once effect. After two detector runs that overlapped (and no
\* other request), no BenefitPeriod holds more than the sum of the credits
\* the detector counts for it, nor counts more uses than there are credits.
C7_AtMostOnce ==
    (runs.detects = 2 /\ runs.overlapped /\ ~runs.manual /\ AllIdle)
    => \A c \in DOMAIN user_cards :
         LET benefits == card_configs[user_cards[c].card_config_id].benefits
         IN \A b \in 1..Len(benefits) :
              AutoTracked(benefits[b]) =>
                LET counted == CountedCredits(user_cards[c], benefits[b], today)
                    period  == DetectorPeriod(benefits[b], today,
                                   DetectorAnniversary(user_cards[c].card_anniversary, today))
                    key     == PeriodKey(c, benefits[b].slug, period[1])
                IN key \in DOMAIN benefit_periods =>
                     /\ benefit_periods[key].amount_used <= SumAmounts(transactions, counted)
                     /\ benefit_periods[key].usage_count <= Cardinality(counted)

\* Worker p ends its request in this step.
Ends(p) == inflight[p].status # "idle" /\ inflight'[p].status = "idle"

\* Every write of session s is in the tables.
Persisted(s, periods, txns) ==
    /\ \A k \in DOMAIN s.new : k \in DOMAIN periods /\ periods[k] = s.new[k]
    /\ \A k \in DOMAIN s.loaded :
          /\ k \in DOMAIN periods
          /\ \A c \in DOMAIN s.loaded[k] :
                s.loaded[k][c] # s.orig[k][c] => periods[k][c] = s.loaded[k][c]
    /\ \A i \in DOMAIN s.txn_slug : txns[i].benefit_slug = s.txn_slug[i]

\* C8: a request is atomic. The tables change only in the step in which a
\* request commits, and then every BenefitPeriod row and every
\* Transaction.benefit_slug the request wrote is in the tables; a request
\* that is cancelled or fails leaves the tables as they are.
C8_Atomic ==
    [][/\ (benefit_periods' # benefit_periods \/ transactions' # transactions)
             => \E p \in Workers : AtCommit(inflight[p]) /\ Ends(p) /\ outcome' = "200"
       /\ \A p \in Workers :
             (AtCommit(inflight[p]) /\ Ends(p) /\ outcome' = "200")
             => Persisted(inflight[p], benefit_periods', transactions')
       /\ \A p \in Workers :
             (Ends(p) /\ outcome' # "200")
             => (benefit_periods' = benefit_periods /\ transactions' = transactions)]_vars

\* C8 witness: a request that had reached its commit with writes pending has
\* failed, and the tables hold the period and the benefit_slug that another
\* detector run committed.
C8_Witness ==
    /\ outcome = "IntegrityError"
    /\ AllIdle
    /\ \E k \in DOMAIN benefit_periods : benefit_periods[k].manual_checked = 0
    /\ \E i \in 1..Len(transactions) : transactions[i].benefit_slug # NULL

\* C9: when two requests concurrently create the BenefitPeriod of one key,
\* the one that loses the insert is retried as an accumulate: no request
\* ends in the IntegrityError of the unique constraint.
C9_InsertCollisionRetried == outcome # "IntegrityError"

(***************************************************************************)
(* The refresh-session protocol, with refresh requests served concurrently. *)
(***************************************************************************)
benefitVars == <<today, card_configs, user_cards, transactions, benefit_periods,
                 last, inflight, outcome, runs, benefit_settings, response>>

\* The sessions that exist once every refresh being served has committed.
SessionsPending ==
    Len(refresh_sessions) + Cardinality({p \in Workers : refreshing[p].status # "idle"})

\* POST /auth/login with the right password.
Login(user_id) ==
    /\ SessionsPending < MaxSessions
    /\ refresh_sessions' = create_refresh_session(refresh_sessions, user_id, 0, clock).sessions
    /\ logged_out' = [logged_out EXCEPT ![user_id] = FALSE]
    /\ UNCHANGED <<clock, refreshing, accepted, benefitVars>>

\* POST /auth/refresh, presenting the cookie of session i, up to its reads:
\* the request is rejected with 401, or goes on to rotate the session.
RefreshBegin(p, i) ==
    /\ refreshing[p].status = "idle"
    /\ i \in DOMAIN refresh_sessions
    /\ SessionsPending < MaxSessions
    /\ LET session_id == ValidateRefresh(IssuedToken(refresh_sessions, i),
                                         refresh_sessions, clock)
       IN refreshing' = [refreshing EXCEPT ![p] =
                            IF session_id = 0 THEN NotRefreshing
                            ELSE [status |-> "validated", session_id |-> session_id]]
    /\ UNCHANGED <<refresh_sessions, clock, accepted, logged_out, benefitVars>>

\* POST /auth/refresh from its writes to the commit and the 200 response.
RefreshCommit(p) ==
    /\ refreshing[p].status = "validated"
    /\ refresh_sessions' = RotateSession(refresh_sessions, refreshing[p].session_id, clock)
    /\ accepted' = [accepted EXCEPT ![refreshing[p].session_id] = Min(@ + 1, 2)]
    /\ refreshing' = [refreshing EXCEPT ![p] = NotRefreshing]
    /\ UNCHANGED <<clock, logged_out, benefitVars>>

\* POST /auth/logout of a user who has logged in.
Logout(user_id) ==
    /\ \E i \in DOMAIN refresh_sessions : refresh_sessions[i].user_id = user_id
    /\ refresh_sessions' = revoke_all_user_sessions(refresh_sessions, user_id, clock)
    /\ logged_out' = [logged_out EXCEPT ![user_id] = TRUE]
    /\ UNCHANGED <<clock, refreshing, accepted, benefitVars>>

\* Time passes: the lifetime of a refresh token.
Tick ==
    /\ clock + refresh_token_expire_days <= MaxClock
    /\ clock' = clock + refresh_token_expire_days
    /\ UNCHANGED <<refresh_sessions, refreshing, accepted, logged_out, benefitVars>>

AuthNext ==
    \/ \E u \in AuthUsers : Login(u)
    \/ \E p \in Workers, i \in 1..MaxSessions : RefreshBegin(p, i)
    \/ \E p \in Workers : RefreshCommit(p)
    \/ \E u \in AuthUsers : Logout(u)
    \/ Tick

SpecAuth == Init /\ [][AuthNext]_vars

\* C10: refresh rotation. A refresh token is accepted by the first refresh
\* that presents it and by no other: no token is accepted twice.
C10_RefreshRotation == \A j \in 1..MaxSessions : accepted[j] <= 1

\* C11: concurrent refreshes of one token. No session has two unrevoked
\* successors: no two unrevoked sessions have the same rotated_from_id.
C11_SingleSuccessor ==
    \A i, j \in DOMAIN refresh_sessions :
        (/\ i # j
         /\ refresh_sessions[i].rotated_from_id # 0
         /\ refresh_sessions[i].rotated_from_id = refresh_sessions[j].rotated_from_id)
        => (refresh_sessions[i].revoked_at # NoTime \/ refresh_sessions[j].revoked_at # NoTime)

\* C12: logout revocation. Once user U has logged out (and has not logged in
\* again) and no refresh request is being served, no refresh session of U
\* is unrevoked, so that no refresh token of U can be accepted.
C12_LogoutRevokesAll ==
    \A u \in AuthUsers :
        (logged_out[u] /\ \A p \in Workers : refreshing[p].status = "idle")
        => \A i \in DOMAIN refresh_sessions :
              refresh_sessions[i].user_id = u => refresh_sessions[i].revoked_at # NoTime

(***************************************************************************)
(* The period functions applied to chosen inputs.                           *)
(***************************************************************************)
\* Reference dates: both sides of an anniversary, ends of months and years,
\* leap and non-leap Februaries.
ReferenceDates ==
    { D(2025, 8, 1), D(2025, 6, 1), D(2025, 7, 15), D(2025, 7, 14), D(2025, 1, 1),
      D(2025, 12, 31), D(2025, 2, 28), D(2024, 2, 29), D(2024, 3, 1) }

\* Card anniversaries as stored: NULL, MM-DD and YYYY-MM-DD strings.
AnniversaryStrings ==
    { NoText, MMDD(7, 15), YMD(2020, 7, 15), MMDD(2, 29), YMD(2020, 2, 29),
      MMDD(1, 1), YMD(2019, 12, 31) }

\* The card_anniversary argument: None or a date.
AnniversaryDates ==
    { NoDate, D(2020, 7, 15), D(2020, 2, 29), D(2021, 1, 1), D(2019, 12, 31) }

Cadences ==
    { "monthly", "quarterly", "semi-annual", "annual", "rolling", "one-time",
      "per-booking" }

ResetTypes == { NULL, "calendar_year", "cardmember_year" }

\* The last_used_date argument: None or a date.
LastUsedDates == { NoDate, D(2020, 1, 1), D(2024, 6, 1), D(2025, 7, 1) }

\* An annual benefit that resets on the card anniversary.
CardYearBenefit == [slug |-> "cardyear", cadence |-> "annual",
                    reset_type |-> "cardmember_year", tracking_mode |-> "auto"]

\* get_period_boundaries(cadence, d, card_anniversary, reset_type,
\* last_used_date=last_used_date)
ComputePeriod(cadence, d, card_anniversary, reset_type, last_used_date) ==
    /\ response = NoResponse
    /\ response' = [op |-> "period", cadence |-> cadence, reference_date |-> d,
                    card_anniversary |-> card_anniversary, reset_type |-> reset_type,
                    last_used_date |-> last_used_date,
                    result |-> get_period_boundaries(cadence, d, card_anniversary, reset_type,
                                                     DefaultResetYears, last_used_date)]
    /\ UNCHANGED <<today, card_configs, user_cards, transactions, benefit_periods, last,
                   concVars, authVars, benefit_settings>>

\* The period of a cardmember-year benefit as the detector and the status
\* projection compute it from the stored anniversary string on day d.
CardYearPeriod(anniversary_str, d) ==
    /\ response = NoResponse
    /\ response' = [op |-> "card_year", anniversary_str |-> anniversary_str,
                    reference_date |-> d,
                    card_anniversary |-> DetectorAnniversary(anniversary_str, d),
                    result |-> DetectorPeriod(CardYearBenefit, d,
                                              DetectorAnniversary(anniversary_str, d))]
    /\ UNCHANGED <<today, card_configs, user_cards, transactions, benefit_periods, last,
                   concVars, authVars, benefit_settings>>

PeriodsNext ==
    \/ \E c \in Cadences, d \in ReferenceDates, a \in AnniversaryDates,
          r \in ResetTypes, l \in LastUsedDates : ComputePeriod(c, d, a, r, l)
    \/ \E a \in AnniversaryStrings, d \in ReferenceDates : CardYearPeriod(a, d)

SpecPeriods == Init /\ [][PeriodsNext]_vars

\* C17: period-bounds containment. For every cadence and reference date d
\* get_period_boundaries returns (start, end) with start <= d <= end.
C17_PeriodContainsDate ==
    response.op = "period"
    => /\ response.result # PeriodError
       /\ DateLE(response.result[1], response.reference_date)
       /\ DateLE(response.reference_date, response.result[2])

\* A's date in year y, for an anniversary A that is not Feb 29.
Occurrence(card_anniversary, y) == D(y, card_anniversary.month, card_anniversary.day)

\* C18: cardmember year. For an annual benefit with reset_type
\* cardmember_year and anniversary A (not Feb 29), the period of d starts on
\* A's date in d's year when d is on or after it and on A's date of the year
\* before otherwise, and ends the day before the next occurrence of A;
\* anniversary 07-15 gives [2025-07-15, 2026-07-14] for 2025-08-01 and
\* [2024-07-15, 2025-07-14] for 2025-06-01.
C18_CardmemberYear ==
    (/\ response.op = "period"
     /\ response.cadence = "annual"
     /\ response.reset_type = "cardmember_year"
     /\ response.card_anniversary # NoDate
     /\ ~(response.card_anniversary.month = 2 /\ response.card_anniversary.day = 29))
    => LET d     == response.reference_date
           A     == response.card_anniversary
           start == IF DateLE(Occurrence(A, d.year), d) THEN Occurrence(A, d.year)
                    ELSE Occurrence(A, d.year - 1)
       IN /\ response.result # PeriodError
          /\ response.result[1] = start
          /\ PlusOneDay(response.result[2]) = Occurrence(A, start.year + 1)
          /\ (A = D(2020, 7, 15) /\ d = D(2025, 8, 1))
                => response.result = <<D(2025, 7, 15), D(2026, 7, 14)>>
          /\ (A = D(2020, 7, 15) /\ d = D(2025, 6, 1))
                => response.result = <<D(2024, 7, 15), D(2025, 7, 14)>>

\* C18 witness: the period of 2025-06-01 for the anniversary 07-15 has been
\* computed, and it starts in 2024.
C18_Witness ==
    /\ response.op = "period"
    /\ response.cadence = "annual" /\ response.reset_type = "cardmember_year"
    /\ response.card_anniversary = D(2020, 7, 15)
    /\ response.reference_date = D(2025, 6, 1)
    /\ response.result[1].year = 2024

\* C19: a Feb 29 anniversary, given as MM-DD or YYYY-MM-DD, resolves in a
\* non-leap year to Feb 28 and gives a cardmember-year period: no error and
\* no calendar year.
C19_Feb29Resolved ==
    (/\ response.op = "card_year"
     /\ response.anniversary_str \in { MMDD(2, 29), YMD(2020, 2, 29) }
     /\ ~IsLeap(response.reference_date.year))
    => /\ response.result # PeriodError
       /\ response.result[1].month = 2 /\ response.result[1].day = 28

(***************************************************************************)
(* Two users, one of them with a card: the card routes, the detector,       *)
(* mark-used and the status projection, one request at a time.              *)
(***************************************************************************)
\* An auto-tracked annual credit that resets on the card anniversary.
AirlineBenefit ==
    [slug |-> "airline", name |-> "Airline Credit", value |-> 10, cadence |-> "annual",
     reset_type |-> "cardmember_year", tracking_mode |-> "auto",
     detection_rules |-> [credit_patterns |-> << <<"x">> >>]]

\* A manual credit per booking.
BookingBenefit ==
    [slug |-> "booking", name |-> "Hotel Credit", value |-> 3, cadence |-> "per-booking",
     tracking_mode |-> "manual"]

CardsYaml == <<DiningBenefit(5), AirlineBenefit, LoungeBenefit, BookingBenefit>>

\* The user card ids that requests name: the card of u1.
CardIds == {"uc1"}

\* The days on which the requests are made, in order.
CardsDays == << D(2025, 3, 15), D(2025, 3, 28), D(2025, 3, 31) >>

\* The bodies of PATCH /cards/my/{id}.
CardUpdates ==
    { [has_anniversary |-> TRUE, card_anniversary |-> YMD(2021, 3, 1),
       has_active |-> FALSE, active |-> FALSE],
      [has_anniversary |-> FALSE, card_anniversary |-> NoText,
       has_active |-> TRUE, active |-> FALSE] }

\* The bodies of POST /benefits/mark-used.
CardMarkRequests ==
    { [user_card_id |-> c, benefit_slug |-> "airline", has_amount |-> h, amount |-> 3 * a] :
        c \in CardIds, h \in {TRUE}, a \in {1} }
    \cup
    { [user_card_id |-> c, benefit_slug |-> "booking", has_amount |-> FALSE, amount |-> 0] :
        c \in CardIds }

CardsInit ==
    /\ today = CardsDays[1]
    /\ card_configs = [c \in CardConfigIds |->
                          [benefits |-> CardsYaml, account_patterns |-> AccountPatterns]]
    /\ user_cards = [c \in CardIds |->
                        [user_id |-> "u1",
                         card_config_id |-> "cc1",
                         card_anniversary |-> YMD(2020, 7, 15), active |-> 1]]
    /\ transactions = parse_csv(<<Row1>>, "u1", <<>>, card_configs).added
    /\ benefit_periods = EmptyMap
    /\ last = NoRequest
    /\ inflight = [p \in Workers |-> Idle]
    /\ outcome = "none"
    /\ runs = NoRuns
    /\ AuthInit
    /\ ExtInit

\* The response of a card route or GET route to a caller.
Answer(op, user_id, user_card_id, status) ==
    [op |-> op, user_id |-> user_id, user_card_id |-> user_card_id, status |-> status]

idleVars == <<today, card_configs, transactions, last, concVars, authVars>>

\* PATCH /cards/my/{user_card_id}
UpdateCard(user_id, user_card_id, card_data) ==
    LET r == update_user_card(user_card_id, card_data, user_id, user_cards)
    IN /\ user_cards' = r.user_cards
       /\ response' = Answer("update_card", user_id, user_card_id, r.status)
       /\ UNCHANGED <<idleVars, benefit_periods, benefit_settings>>

\* DELETE /cards/my/{user_card_id}
RemoveCard(user_id, user_card_id) ==
    LET r == remove_card_from_portfolio(user_card_id, user_id, user_cards,
                                        benefit_periods, benefit_settings)
    IN /\ user_cards' = r.user_cards
       /\ benefit_periods' = r.benefit_periods
       /\ benefit_settings' = r.benefit_settings
       /\ response' = Answer("delete_card", user_id, user_card_id, r.status)
       /\ UNCHANGED idleVars

\* GET /benefits/history/{user_card_id}/{benefit_slug}
History(user_id, user_card_id, benefit_slug) ==
    LET r == get_benefit_history(user_card_id, benefit_slug, user_id, user_cards,
                                 benefit_periods)
    IN /\ response' = Answer("history", user_id, user_card_id, r.status)
       /\ UNCHANGED <<idleVars, user_cards, benefit_periods, benefit_settings>>

\* GET /cards/my/{user_card_id}/benefits/settings
GetSettings(user_id, user_card_id) ==
    LET r == get_benefit_settings(user_card_id, user_id, user_cards, benefit_settings)
    IN /\ response' = Answer("get_settings", user_id, user_card_id, r.status)
       /\ UNCHANGED <<idleVars, user_cards, benefit_periods, benefit_settings>>

\* PUT /cards/my/{user_card_id}/benefits/settings
UpdateSetting(user_id, user_card_id) ==
    /\ response' = Answer("update_setting", user_id, user_card_id,
                          update_benefit_setting(user_card_id, user_id, user_cards))
    /\ UNCHANGED <<idleVars, user_cards, benefit_periods, benefit_settings>>

\* GET /benefits/status
GetStatus(user_id) ==
    LET r == get_benefit_status_for_user(user_id, today, user_cards, card_configs,
                                         benefit_periods, benefit_settings)
    IN /\ response = NoResponse
       /\ response' = Answer("status", user_id, NULL, r.status) @@ [benefits |-> r.benefits]
       /\ UNCHANGED <<idleVars, user_cards, benefit_periods, benefit_settings>>

\* The calendar day changes.
CardsNextDay ==
    /\ response = NoResponse
    /\ \E i \in 1..(Len(CardsDays) - 1) : today = CardsDays[i] /\ today' = CardsDays[i + 1]
    /\ UNCHANGED <<card_configs, user_cards, transactions, benefit_periods, last,
                   concVars, authVars, extVars>>

CardsNext ==
    \/ \E u \in AuthUsers : Detect(u)
    \/ \E u \in AuthUsers, r \in CardMarkRequests : MarkUsed(u, r)
    \/ \E u \in AuthUsers, c \in CardIds, d \in CardUpdates : UpdateCard(u, c, d)
    \/ \E u \in AuthUsers, c \in CardIds : RemoveCard(u, c)
    \/ \E u \in AuthUsers, c \in CardIds : History(u, c, "airline")
    \/ \E u \in AuthUsers, c \in CardIds : GetSettings(u, c)
    \/ \E u \in AuthUsers, c \in CardIds : UpdateSetting(u, c)

SpecCards == CardsInit /\ [][CardsNext]_vars

(***************************************************************************)
(* The weekly digest (services/notifications.py).                           *)
(***************************************************************************)
\* The parameters of get_benefit_status_for_user; a call that passes another
\* keyword raises TypeError.
StatusParameters == {"db", "user_id", "include_hidden"}

\* Lines 25-42 of get_expiring_benefits_for_user on the entries of a
\* projection: the keys of the benefits that expire within the threshold.
ExpiringOf(benefits, days_threshold) ==
    { k \in DOMAIN benefits :
        \/ benefits[k].status = "expiring"
        \/ /\ benefits[k].status \in {"available", "partial"}
           /\ benefits[k].days_remaining <= days_threshold
           /\ benefits[k].days_remaining > 0 }

\* Lines 280-288 of get_benefit_status_for_user: days_until_renewal of a
\* card; 0 stands for None.
DaysUntilRenewal(card_anniversary, day) ==
    IF card_anniversary = NoDate THEN 0
    ELSE LET this_year == date(day.year, card_anniversary.month, card_anniversary.day)
             next_anniversary ==
                 IF DateLE(this_year, day)
                 THEN date(day.year + 1, card_anniversary.month, card_anniversary.day)
                 ELSE this_year
         IN toordinal(next_anniversary) - toordinal(day)

\* Lines 53-63 of get_upcoming_renewals on the cards of a projection: the
\* active cards of the user that renew within the threshold.
RenewalsOf(user_id, day, ucards, days_threshold) ==
    { c \in DOMAIN ucards :
        /\ ucards[c].user_id = user_id /\ ucards[c].active = 1
        /\ DaysUntilRenewal(DetectorAnniversary(ucards[c].card_anniversary, day), day) # 0
        /\ DaysUntilRenewal(DetectorAnniversary(ucards[c].card_anniversary, day), day)
              <= days_threshold }

\* get_expiring_benefits_for_user on the tables of the state: line 23 calls
\* get_benefit_status_for_user with the keyword include_muted.
get_expiring_benefits_for_user(user_id, days_threshold) ==
    IF "include_muted" \notin StatusParameters THEN [raises |-> "TypeError", items |-> {}]
    ELSE LET status == get_benefit_status_for_user(user_id, today, user_cards, card_configs,
                                                   benefit_periods, benefit_settings)
         IN IF status.status # "200" THEN [raises |-> "ValueError", items |-> {}]
            ELSE [raises |-> NULL, items |-> ExpiringOf(status.benefits, days_threshold)]

\* get_upcoming_renewals on the tables of the state: line 51 makes the same
\* call.
get_upcoming_renewals(user_id, days_threshold) ==
    IF "include_muted" \notin StatusParameters THEN [raises |-> "TypeError", items |-> {}]
    ELSE LET status == get_benefit_status_for_user(user_id, today, user_cards, card_configs,
                                                   benefit_periods, benefit_settings)
         IN IF status.status # "200" THEN [raises |-> "ValueError", items |-> {}]
            ELSE [raises |-> NULL,
                  items |-> RenewalsOf(user_id, today, user_cards, days_threshold)]

\* send_weekly_digest_for_user: the exception it raises if any, whether it
\* called send_email_notification, and what it returned; transport_ok is
\* what send_email_notification returns.
send_weekly_digest_for_user(email_notifications, user_id, transport_ok) ==
    IF ~email_notifications
    THEN [raises |-> NULL, handed |-> FALSE, returned |-> FALSE]
    ELSE IF get_expiring_benefits_for_user(user_id, 7).raises # NULL
    THEN [raises |-> get_expiring_benefits_for_user(user_id, 7).raises,
          handed |-> FALSE, returned |-> FALSE]
    ELSE IF get_upcoming_renewals(user_id, 30).raises # NULL
    THEN [raises |-> get_upcoming_renewals(user_id, 30).raises,
          handed |-> FALSE, returned |-> FALSE]
    ELSE IF /\ get_expiring_benefits_for_user(user_id, 7).items = {}
            /\ get_upcoming_renewals(user_id, 30).items = {}
    THEN [raises |-> NULL, handed |-> FALSE, returned |-> FALSE]
    ELSE [raises |-> NULL, handed |-> TRUE, returned |-> transport_ok]

\* POST /notifications/digest/send for a user whose settings give
\* email_notifications, with a transport that accepts the mail or not.
SendDigest(user_id, email_notifications, transport_ok) ==
    /\ response = NoResponse
    /\ response' = Answer("digest", user_id, NULL,
                          IF send_weekly_digest_for_user(email_notifications, user_id,
                                                         transport_ok).raises # NULL
                          THEN "500" ELSE "200")
                      @@ [enabled |-> email_notifications]
                      @@ send_weekly_digest_for_user(email_notifications, user_id,
                                                     transport_ok)
    /\ UNCHANGED <<idleVars, user_cards, benefit_periods, benefit_settings>>

\* The status projection between detector runs, marks and day changes.
\* The writes that precede a projection. The projection reads the tables and
\* writes none, so a behaviour takes one and the writes stop there.
DetectBefore(user_id) == response = NoResponse /\ Detect(user_id)

MarkUsedBefore(user_id, request) == response = NoResponse /\ MarkUsed(user_id, request)

StatusNext ==
    \/ \E u \in UserIds : DetectBefore(u)
    \/ \E u \in UserIds, r \in CardMarkRequests : MarkUsedBefore(u, r)
    \/ \E u \in AuthUsers : GetStatus(u)
    \/ \E u \in AuthUsers, e \in BOOLEAN, t \in BOOLEAN : SendDigest(u, e, t)
    \/ CardsNextDay

SpecStatus == CardsInit /\ [][StatusNext]_vars

(***************************************************************************)
(* Properties of the card routes, checked under SpecCards.                  *)
(***************************************************************************)
\* The user card is not one of the caller's: it does not exist or belongs to
\* another user.
NotOwner(user_id, user_card_id) ==
    \/ user_card_id \notin DOMAIN user_cards
    \/ user_cards[user_card_id].user_id # user_id

\* The step writes to no table.
TablesUnchanged ==
    /\ user_cards' = user_cards
    /\ benefit_periods' = benefit_periods
    /\ benefit_settings' = benefit_settings
    /\ transactions' = transactions

\* C14: a mark-used, history, card update, card delete or benefit-settings
\* request that names a user card the caller does not own is answered 404
\* and writes to no table.
C14_NotOwnedIsNotFound ==
    [][\A u \in AuthUsers, c \in CardIds :
          NotOwner(u, c) =>
            /\ \A r \in CardMarkRequests :
                  (r.user_card_id = c /\ MarkUsed(u, r))
                  => (last'.status = "404" /\ TablesUnchanged)
            /\ \A d \in CardUpdates :
                  UpdateCard(u, c, d) => (response'.status = "404" /\ TablesUnchanged)
            /\ RemoveCard(u, c) => (response'.status = "404" /\ TablesUnchanged)
            /\ History(u, c, "airline") => (response'.status = "404" /\ TablesUnchanged)
            /\ GetSettings(u, c) => (response'.status = "404" /\ TablesUnchanged)
            /\ UpdateSetting(u, c) => (response'.status = "404" /\ TablesUnchanged)]_vars

\* C14 witness: u2 has asked to delete the card of u1, which holds benefit
\* periods; the answer was 404 and the card is still there.
C14_Witness ==
    /\ response.op = "delete_card" /\ response.status = "404"
    /\ response.user_id = "u2" /\ response.user_card_id = "uc1"
    /\ "uc1" \in DOMAIN user_cards /\ user_cards["uc1"].user_id = "u1"
    /\ \E k \in DOMAIN benefit_periods : k[1] = "uc1"

\* C15: every transaction with a benefit_slug has a stored BenefitPeriod of
\* that benefit on a card of its user for its card config, whose
\* amount_used covers the amount of the transaction.
C15_SlugHasPeriod ==
    \A i \in 1..Len(transactions) :
        transactions[i].benefit_slug # NULL
        => \E k \in DOMAIN benefit_periods :
              /\ k[2] = transactions[i].benefit_slug
              /\ k[1] \in DOMAIN user_cards
              /\ user_cards[k[1]].user_id = transactions[i].user_id
              /\ user_cards[k[1]].card_config_id = transactions[i].card_config_id
              /\ benefit_periods[k].amount_used >= Abs(transactions[i].amount)

\* C16: two distinct stored periods of one card and benefit do not overlap.
C16_PeriodsDisjoint ==
    \A k1, k2 \in DOMAIN benefit_periods :
        (k1 # k2 /\ k1[1] = k2[1] /\ k1[2] = k2[2])
        => \/ benefit_periods[k1].period_end < k2[3]
           \/ benefit_periods[k2].period_end < k1[3]

(***************************************************************************)
(* Properties of the status projection, checked under SpecStatus.           *)
(***************************************************************************)
\* The status the rules give, tried in order, to an entry of the projection:
\* info; used; partial; expired; expiring; available.
RuleStatus(item, user_card_id) ==
    LET key == <<user_card_id, item.slug, item.period_start>>
        rec == key \in DOMAIN benefit_periods
    IN CASE item.tracking_mode = "info" -> "info"
         [] item.tracking_mode # "info" /\ rec /\ benefit_periods[key].completed = 1 -> "used"
         [] item.tracking_mode # "info" /\ rec /\ benefit_periods[key].completed # 1
               /\ benefit_periods[key].amount_used > 0 -> "partial"
         [] OTHER -> IF item.days_remaining = 0 THEN "expired"
                     ELSE IF item.days_remaining <= 7 THEN "expiring"
                     ELSE "available"

\* C20: status totality and precedence. Every benefit of an active card of
\* the caller gets one entry, and its status is the one of the first rule
\* that matches: info, used, partial, expired, expiring, available.
C20_StatusPrecedence ==
    [][\A u \in AuthUsers :
          (GetStatus(u) /\ response'.status = "200")
          => LET cards == { c \in DOMAIN user_cards :
                              user_cards[c].user_id = u /\ user_cards[c].active = 1 }
             IN /\ DOMAIN response'.benefits =
                      { <<c, b>> \in cards \X (1..Len(CardsYaml)) : TRUE }
                /\ \A k \in DOMAIN response'.benefits :
                      /\ response'.benefits[k].slug = CardsYaml[k[2]].slug
                      /\ response'.benefits[k].status = RuleStatus(response'.benefits[k], k[1])]_vars

\* C20 witness: a projection made on the last day of a period holds a used
\* benefit with no day remaining, next to an info and a partial one.
C20_Witness ==
    /\ response.op = "status" /\ response.status = "200"
    /\ \E k \in DOMAIN response.benefits :
          response.benefits[k].status = "used" /\ response.benefits[k].days_remaining = 0
    /\ \E k \in DOMAIN response.benefits : response.benefits[k].status = "info"
    /\ \E k \in DOMAIN response.benefits : response.benefits[k].status = "partial"

\* C21: muting through the settings endpoint takes effect: the PUT of a
\* benefit setting by the owner of the card is answered 200 and leaves a
\* settings row of that card for the next projection to read.
C21_MuteTakesEffect ==
    [][\A u \in AuthUsers, c \in CardIds :
          (UpdateSetting(u, c) /\ ~NotOwner(u, c))
          => /\ response'.status = "200"
             /\ \E k \in DOMAIN benefit_settings' : k[1] = c]_vars

(***************************************************************************)
(* CSV imports of two users, one request at a time.                         *)
(***************************************************************************)
\* Row1 again, of another account of the same card.
Row4 == [Row1 EXCEPT !.account = <<"T", "C", "2">>]

\* The uploaded files: a row twice, two rows that differ in the account
\* only, and a file that holds a row of the other files and a row twice.
ImportFiles == { <<Row1, Row1>>, <<Row4, Row1>>, <<Row2, Row4, Row2>> }

\* POST /transactions/upload, with the counts of its response.
Import(user_id, file) ==
    LET r == parse_csv(file, user_id, transactions, card_configs)
    IN /\ transactions' = transactions \o r.added
       /\ response' = Answer("upload", user_id, NULL, "200")
                         @@ [imported |-> r.imported, skipped |-> r.skipped]
       /\ UNCHANGED <<today, card_configs, user_cards, benefit_periods, last,
                      concVars, authVars, benefit_settings>>

ImportNext == \E u \in AuthUsers, f \in ImportFiles : Import(u, f)

SpecImport == CardsInit /\ [][ImportNext]_vars

\* The columns of the unique constraint uq_transaction, without the user.
RowKey(row) == <<row.date, row.name, row.amount, row.account>>

\* The keys of the transactions stored for a user.
StoredKeys(txns, user_id) ==
    { RowKey(txns[i]) : i \in { j \in 1..Len(txns) : txns[j].user_id = user_id } }

\* C22: CSV import deduplication. After an import no user has two
\* transactions with the same (date, name, amount, account); the rows
\* imported are the keys of the file that the user had not stored, once
\* each, every other row is counted as skipped, and importing the same file
\* again imports no row.
C22_ImportDedup ==
    [][\A u \in AuthUsers, f \in ImportFiles :
          Import(u, f)
          => LET fresh == { RowKey(f[i]) : i \in 1..Len(f) } \ StoredKeys(transactions, u)
             IN /\ \A i, j \in 1..Len(transactions') :
                      (i # j /\ transactions'[i].user_id = transactions'[j].user_id)
                      => RowKey(transactions'[i]) # RowKey(transactions'[j])
                /\ response'.imported = Cardinality(fresh)
                /\ response'.skipped = Len(f) - Cardinality(fresh)
                /\ Len(transactions') = Len(transactions) + Cardinality(fresh)
                /\ StoredKeys(transactions', u) = StoredKeys(transactions, u) \cup fresh
                /\ \A v \in AuthUsers \ {u} :
                      StoredKeys(transactions', v) = StoredKeys(transactions, v)
                /\ parse_csv(f, u, transactions', card_configs).imported = 0]_vars

\* C22 witness: an import of three rows stored one and skipped two, a row
\* the user had stored and a row that the file holds twice.
C22_Witness ==
    /\ response.op = "upload" /\ response.imported = 1 /\ response.skipped = 2
    /\ \E i, j \in 1..Len(transactions) :
          /\ transactions[i].user_id = response.user_id
          /\ transactions[j].user_id = response.user_id
          /\ RowKey(transactions[i]) = RowKey(Row4) /\ RowKey(transactions[j]) = RowKey(Row2)

(***************************************************************************)
(* Properties of one detector run.                                          *)
(***************************************************************************)
\* The active cards of a user.
ActiveCards(user_id) ==
    { c \in DOMAIN user_cards : user_cards[c].user_id = user_id /\ user_cards[c].active = 1 }

\* The position, in the benefit list of the card, of the first auto-tracked
\* benefit that counts transaction i on the day; 0 when there is none.
FirstMatch(user_card_id, i, day) ==
    LET benefits == card_configs[user_cards[user_card_id].card_config_id].benefits
        hits == { b \in 1..Len(benefits) :
                    /\ AutoTracked(benefits[b])
                    /\ i \in CountedCredits(user_cards[user_card_id], benefits[b], day) }
    IN IF hits = {} THEN 0 ELSE CHOOSE b \in hits : \A x \in hits : b <= x

\* The key of the period of the day of the b-th benefit of a card.
DetectorKey(user_card_id, b, day) ==
    LET benefit == card_configs[user_cards[user_card_id].card_config_id].benefits[b]
        period  == DetectorPeriod(benefit, day,
                       DetectorAnniversary(user_cards[user_card_id].card_anniversary, day))
    IN PeriodKey(user_card_id, benefit.slug, period[1])

\* The step creates the period of the key or changes its row.
Written(key) ==
    /\ key \in DOMAIN benefit_periods'
    /\ key \notin DOMAIN benefit_periods \/ benefit_periods'[key] # benefit_periods[key]

\* C23: a transaction that matches several auto-tracked benefits of a card
\* is applied to the first of them in the benefit list only: a detector
\* run writes to the period of a benefit only if that benefit is the first
\* match of some transaction, and tags a transaction with the slug of its
\* first match.
C23_FirstBenefitWins ==
    [][\A u \in AuthUsers :
          (Detect(u) /\ last'.status = "200")
          => \A c \in ActiveCards(u) :
                LET benefits == card_configs[user_cards[c].card_config_id].benefits
                IN /\ \A b \in 1..Len(benefits) :
                         (AutoTracked(benefits[b]) /\ Written(DetectorKey(c, b, today)))
                         => \E i \in 1..Len(transactions) : FirstMatch(c, i, today) = b
                   /\ \A i \in 1..Len(transactions) :
                         (transactions'[i].benefit_slug # transactions[i].benefit_slug
                            /\ transactions[i].card_config_id = user_cards[c].card_config_id)
                         => /\ FirstMatch(c, i, today) # 0
                            /\ transactions'[i].benefit_slug =
                                   benefits[FirstMatch(c, i, today)].slug]_vars

(***************************************************************************)
(* Detector runs and marks over two months, with the credits of both        *)
(* months imported beforehand.                                              *)
(***************************************************************************)
MonthsInit ==
    /\ today = Days[1]
    /\ \E y \in YamlFiles :
         card_configs = [c \in CardConfigIds |-> [benefits |-> y, account_patterns |-> AccountPatterns]]
    /\ \E a \in Anniversaries :
         user_cards = [c \in UserCardIds |->
                          [user_id |-> "u1", card_config_id |-> "cc1",
                           card_anniversary |-> a, active |-> 1]]
    /\ transactions = parse_csv(<<Row2, Row1, Row3>>, "u1", <<>>, card_configs).added
    /\ benefit_periods = EmptyMap
    /\ last = NoRequest
    /\ inflight = [p \in Workers |-> Idle]
    /\ outcome = "none"
    /\ runs = NoRuns
    /\ AuthInit
    /\ ExtInit

MonthsNext ==
    \/ \E u \in UserIds : Detect(u)
    \/ \E u \in UserIds, r \in MarkRequests : MarkUsed(u, r)
    \/ NextDay

SpecMonths == MonthsInit /\ [][MonthsNext]_vars

\* The applications of a detector run of the user on the day: card,
\* position of an auto-tracked benefit, transaction the benefit counts.
Applied(user_id, day) ==
    UNION { UNION { { <<c, b, i>> :
                        i \in CountedCredits(user_cards[c],
                                  card_configs[user_cards[c].card_config_id].benefits[b], day) } :
                    b \in { x \in 1..Len(card_configs[user_cards[c].card_config_id].benefits) :
                              AutoTracked(card_configs[user_cards[c].card_config_id].benefits[x]) } } :
            c \in ActiveCards(user_id) }

\* C24: in a detector run every transaction whose amount is applied to a
\* period, created or accumulated into, is tagged with the slug of the
\* benefit and counted: detected is the number of applications of the run.
C24_DetectedCountsApplied ==
    [][\A u \in UserIds :
          (Detect(u) /\ last'.status = "200")
          => /\ last'.detected = Cardinality(Applied(u, today))
             /\ \A a \in Applied(u, today) :
                   transactions'[a[3]].benefit_slug =
                       card_configs[user_cards[a[1]].card_config_id].benefits[a[2]].slug]_vars

\* C25: a detector run writes only to periods of the day: a period it
\* creates or changes is the period containing today of an auto-tracked
\* benefit that counts a credit dated inside it; stored periods are kept; a
\* transaction it changes is a credit inside the period of the benefit whose
\* slug it gets, and nothing else of the transaction changes.
C25_OnlyCurrentPeriod ==
    [][\A u \in UserIds :
          Detect(u)
          => /\ DOMAIN benefit_periods \subseteq DOMAIN benefit_periods'
             /\ \A k \in DOMAIN benefit_periods' :
                   Written(k)
                   => /\ k[3] <= isoformat(today)
                      /\ isoformat(today) <= benefit_periods'[k].period_end
                      /\ \E a \in Applied(u, today) : k = DetectorKey(a[1], a[2], today)
             /\ Len(transactions') = Len(transactions)
             /\ \A i \in 1..Len(transactions) :
                   transactions'[i] # transactions[i]
                   => \E a \in Applied(u, today) :
                         /\ a[3] = i
                         /\ transactions'[i] =
                               [transactions[i] EXCEPT !.benefit_slug =
                                   card_configs[user_cards[a[1]].card_config_id].benefits[a[2]].slug]]_vars

\* C25 witness: a detector run in April has created the April period from
\* the April credit; the March period and the March credits are stored.
C25_Witness ==
    /\ today = Days[2] /\ last.op = "detect" /\ last.status = "200" /\ last.detected = 1
    /\ \E k \in DOMAIN benefit_periods :
          k[3] = 20250401 /\ benefit_periods[k].manual_checked = 0
             /\ benefit_periods[k].amount_used = 3
    /\ \E k \in DOMAIN benefit_periods : k[3] = 20250301 /\ benefit_periods[k].amount_used > 0

(***************************************************************************)
(* Properties of the stored limit, checked under Spec.                      *)
(***************************************************************************)
\* benefit.get("value", 0) of the benefit of a period key in the catalog.
CatalogValue(key) ==
    LET benefits == card_configs[user_cards[key[1]].card_config_id].benefits
        b == CHOOSE x \in 1..Len(benefits) : benefits[x].slug = key[2]
    IN Get(benefits[b], "value", 0)

\* C28: the amount_limit of a stored period is changed by no catalog
\* reload, detector run or mark-used call, and a period gets, when it is
\* created, the value the catalog gives the benefit at that time.
C28_StoredLimitKept ==
    [][/\ \A k \in DOMAIN benefit_periods \cap DOMAIN benefit_periods' :
             benefit_periods'[k].amount_limit = benefit_periods[k].amount_limit
       /\ \A k \in DOMAIN benefit_periods' \ DOMAIN benefit_periods :
             benefit_periods'[k].amount_limit = CatalogValue(k)]_vars

\* C28 witness: after a reload changed the value of the benefit, a request
\* has written to a period created before it, which keeps its limit, and a
\* period created since has the new value.
C28_Witness ==
    /\ last.op \in {"detect", "mark"} /\ last.status = "200"
    /\ \E k1, k2 \in DOMAIN benefit_periods :
          /\ k1[1] = k2[1] /\ k1[2] = k2[2] /\ k1[3] < k2[3]
          /\ benefit_periods[k1].amount_limit # CatalogValue(k1)
          /\ benefit_periods[k1].usage_count >= 2
          /\ benefit_periods[k2].amount_limit = CatalogValue(k2)

(***************************************************************************)
(* Properties of the weekly digest, checked under SpecStatus.               *)
(***************************************************************************)
\* C29: the digest is handed to the email transport exactly when the user
\* has email notifications enabled and the list of expiring benefits or the
\* list of upcoming renewals is not empty; otherwise nothing is handed over
\* and nothing is reported as sent.
C29_DigestGate ==
    [][\A u \in AuthUsers, e \in BOOLEAN, t \in BOOLEAN :
          SendDigest(u, e, t)
          => LET status == get_benefit_status_for_user(u, today, user_cards, card_configs,
                                                       benefit_periods, benefit_settings)
                 nothing == /\ ExpiringOf(status.benefits, 7) = {}
                            /\ RenewalsOf(u, today, user_cards, 30) = {}
             IN IF ~e \/ nothing
                THEN ~response'.handed /\ ~response'.returned
                ELSE response'.handed]_vars

(***************************************************************************)
(* The period key of mark-used, detector and projector (SpecCards).         *)
(***************************************************************************)
\* The position of the benefit of a slug in the benefit list of a card.
BenefitIndex(user_card_id, benefit_slug) ==
    LET benefits == card_configs[user_cards[user_card_id].card_config_id].benefits
    IN CHOOSE b \in 1..Len(benefits) : benefits[b].slug = benefit_slug

\* C30: mark-used, detector and projector agree on the period key: after a
\* successful mark-used call the period that the detector writes to and the
\* projector looks up on that day, for that card and benefit, is stored and
\* carries the manual mark.
C30_SamePeriodKey ==
    [][\A u \in AuthUsers, r \in CardMarkRequests :
          (MarkUsed(u, r) /\ last'.status = "200")
          => LET key == DetectorKey(r.user_card_id,
                                    BenefitIndex(r.user_card_id, r.benefit_slug), today)
             IN /\ key \in DOMAIN benefit_periods'
                /\ benefit_periods'[key].manual_checked = 1]_vars

(***************************************************************************)
(* A card with a one-time credit and an info-only benefit, over a change    *)
(* of year.                                                                 *)
(***************************************************************************)
\* An auto-tracked credit that is given once.
EntryFeeBenefit ==
    [slug |-> "entry", name |-> "Global Entry", value |-> 10, cadence |-> "one-time",
     tracking_mode |-> "auto",
     detection_rules |-> [credit_patterns |-> << <<"x">> >>]]

LifeYaml == <<EntryFeeBenefit, LoungeBenefit>>

\* The days on which the requests are made, in order.
LifeDays == << D(2025, 12, 30), D(2026, 1, 2) >>

\* The bodies of POST /benefits/mark-used.
LifeMarkRequests ==
    { [user_card_id |-> "uc1", benefit_slug |-> "entry", has_amount |-> TRUE, amount |-> 3],
      [user_card_id |-> "uc1", benefit_slug |-> "lounge", has_amount |-> FALSE, amount |-> 0] }

LifeInit ==
    /\ today = LifeDays[1]
    /\ card_configs = [c \in CardConfigIds |->
                          [benefits |-> LifeYaml, account_patterns |-> AccountPatterns]]
    /\ user_cards = [c \in CardIds |->
                        [user_id |-> "u1", card_config_id |-> "cc1",
                         card_anniversary |-> YMD(2020, 7, 15), active |-> 1]]
    /\ transactions = parse_csv(<<Row1>>, "u1", <<>>, card_configs).added
    /\ benefit_periods = EmptyMap
    /\ last = NoRequest
    /\ inflight = [p \in Workers |-> Idle]
    /\ outcome = "none"
    /\ runs = NoRuns
    /\ AuthInit
    /\ ExtInit

\* The calendar day changes.
LifeNextDay ==
    /\ \E i \in 1..(Len(LifeDays) - 1) : today = LifeDays[i] /\ today' = LifeDays[i + 1]
    /\ last' = Served("day", "none")
    /\ UNCHANGED <<card_configs, user_cards, transactions, benefit_periods,
                   concVars, authVars, extVars>>

LifeNext ==
    \/ \E u \in UserIds : Detect(u)
    \/ \E u \in UserIds, r \in LifeMarkRequests : MarkUsed(u, r)
    \/ LifeNextDay

SpecLife == LifeInit /\ [][LifeNext]_vars

\* The catalog benefit of a stored period.
BenefitOf(key) ==
    card_configs[user_cards[key[1]].card_config_id].benefits[BenefitIndex(key[1], key[2])]

\* C26: info-only benefits produce no usage record: no stored period is of
\* a benefit whose tracking_mode is info.
C26_NoInfoPeriods ==
    \A k \in DOMAIN benefit_periods : Get(BenefitOf(k), "tracking_mode", "manual") # "info"

\* C27: a one-time benefit has at most one stored period per user card.
C27_OneTimeSinglePeriod ==
    \A k1, k2 \in DOMAIN benefit_periods :
        (k1[1] = k2[1] /\ k1[2] = k2[2] /\ Get(BenefitOf(k1), "cadence", "monthly") = "one-time")
        => k1 = k2

====
